---- MODULE Spec2Model ----
(***************************************************************************)
(* A model of the APISec workbench core: the asset store (assets.rs on the *)
(* tables of db.rs), the interception proxy and its coordination commands  *)
(* (proxy.rs, lib.rs) and the leaf-certificate cache (certs.rs).           *)
(*                                                                         *)
(* Granularity.  Every SQL statement, every DashMap operation and every    *)
(* atomic load/store is one step: the commands are async functions run on  *)
(* a multi-threaded runtime, so calls interleave between those steps.      *)
(*                                                                         *)
(* Values.  Rust's Option<String> and SQL's nullable TEXT are strings with *)
(* NULL for None; an Option<i64> row id is a sequence of length at most    *)
(* one (<<>> is None).  Status codes are opaque and written as strings.    *)
(*                                                                         *)
(* Columns.  The rows carry the columns the statements of assets.rs name   *)
(* (status_code included).                                                 *)
(***************************************************************************)
EXTENDS Integers, Sequences, FiniteSets, TLC

VARIABLES
    \* ---- the database (db.rs) ----
    assets,         \* table assets: a set of rows, ids unique
    next_asset_id,  \* AUTOINCREMENT counter of assets
    asset_history,  \* table asset_history, in insertion order
    findings,       \* table findings, in insertion order
    foreign_keys,   \* whether the connection enforces FOREIGN KEY clauses
    clock,          \* CURRENT_TIMESTAMP
    \* ---- store commands in flight (assets.rs) ----
    tk,             \* per task: position and locals of the running command
    calls,          \* number of store commands started so far
    \* ---- the leaf-certificate cache (certs.rs) ----
    cert_lock,      \* holder of CertManager.cache's mutex, or NULL
    cert_cache,     \* host -> <<leaf>>, <<>> when the host is not cached
    cert_signs,     \* host -> number of leaves signed for it so far
    next_serial,    \* identity of the next leaf generated
    gc,             \* per caller: position and locals of get_server_config
    cert_calls,     \* number of get_server_config calls started so far
    \* ---- ProxyState and the proxy's tasks (lib.rs, proxy.rs) ----
    running,             \* ProxyState.running
    capture_body,        \* ProxyState.capture_body
    intercept_requests,  \* ProxyState.intercept_requests
    intercept_responses, \* ProxyState.intercept_responses
    pending_requests,    \* keys of ProxyState.pending_requests
    pending_responses,   \* keys of ProxyState.pending_responses
    chan,                \* per correlation id: its oneshot channel
    next_corr,           \* the next fresh correlation id
    server,              \* per server task: position of start_proxy
    next_server,         \* the next server task to be spawned
    sc,                  \* per caller: position of start_proxy_server
    flow,                \* per flow: position and locals of handle_request
    rc,                  \* per caller: position of resolve_interception
    resolves,            \* number of resolve_interception calls started
    ok_resolves,         \* per correlation id: calls that returned Ok
    config_sets,         \* number of set_proxy_interception_config calls
    \* ---- a function of the analysis under evaluation ----
    args,                \* the arguments it is called with
    ret                  \* <<its return value>>, <<>> before it returns

store_vars == <<assets, next_asset_id, asset_history, findings, foreign_keys,
                clock, tk, calls>>

config_vars == <<capture_body, intercept_requests, intercept_responses,
                 config_sets>>
pending_vars == <<pending_requests, pending_responses, chan, next_corr>>
life_vars == <<running, server, next_server, sc>>
resolve_vars == <<rc, resolves, ok_resolves>>
proxy_vars == <<config_vars, pending_vars, life_vars, resolve_vars, flow>>

cert_vars == <<cert_lock, cert_cache, cert_signs, next_serial, gc, cert_calls>>

eval_vars == <<args, ret>>

vars == <<store_vars, cert_vars, proxy_vars, eval_vars>>

\* What the commands of the store leave alone.
non_store_vars == <<cert_vars, proxy_vars, eval_vars>>

\* What get_server_config leaves alone.
non_cert_vars == <<store_vars, proxy_vars, eval_vars>>

\* What the proxy's commands and tasks leave alone, ingestion aside.
non_proxy_vars == <<store_vars, cert_vars, eval_vars>>

NULL == "NULL"

\* ------------------------------------------------------------------ bounds
MaxCalls == 2
MaxClock == 1

Urls == {"http://h/x", "http://h/y"}
Statuses == {"200", "500"}
Bodies == {NULL, "a", "b"}

CmdTasks == {"cmd1", "cmd2"}
\* The requests in flight through the proxy.
Flows == {"flow1", "flow2"}
\* A store command runs in a task of its own; so does the ingestion each
\* flow spawns (proxy.rs:237), named after the flow.
Tasks == CmdTasks \cup Flows

\* ------------------------------------------------------------- requests
\* CreateAssetRequest.  The findings sent with a request are those a scan of
\* its response body gave: one for body "a", none otherwise.
FindingsOf(body) == IF body = "a" THEN <<"PII-EMAIL">> ELSE <<>>

CreateAssetRequest(url, source, method, status, req_body, res_body, fs) ==
    [url |-> url, source |-> source, method |-> method, status_code |-> status,
     req_body |-> req_body, res_body |-> res_body, findings |-> fs]

StoreRequest(u, s, b) ==
    CreateAssetRequest(u, "Import", "GET", s, NULL, b, FindingsOf(b))

\* The requests the commands are tried with: for the first URL a body change,
\* a status-only change and a change to no body; one request for the second.
StoreRequests ==
    {StoreRequest("http://h/x", "200", "a"), StoreRequest("http://h/x", "500", "a"),
     StoreRequest("http://h/x", "200", "b"), StoreRequest("http://h/x", "200", NULL),
     StoreRequest("http://h/y", "200", "a")}

NoReq == CreateAssetRequest(NULL, NULL, NULL, NULL, NULL, NULL, <<>>)

\* ImportEntry lists of batch_import_full and URL lists of batch_add_assets.
ImportLists ==
    {<<StoreRequest("http://h/x", "200", "b")>>,
     <<StoreRequest("http://h/y", "200", "a"), StoreRequest("http://h/x", "500", "a")>>}
UrlLists ==
    {<<"http://h/x">>, <<"http://h/y", "http://h/x">>, <<"http://h/y", "http://h/y">>}

\* ---------------------------------------------------------------- tasks
NoRet == [kind |-> "none", id |-> <<>>, added |-> 0, skipped |-> 0]

\* request_urls is BatchImportRequest.urls as the caller passed it and
\* before the asset rows at that moment: what the result of
\* batch_add_assets is measured against.
IdleTask ==
    [pc |-> "idle", op |-> "none", req |-> NoReq, todo |-> <<>>, rest |-> <<>>,
     urls |-> <<>>, source |-> NULL, existing_id |-> <<>>,
     existing_res |-> <<NULL, NULL>>, changed |-> FALSE, asset_id |-> <<>>,
     added |-> 0, skipped |-> 0, request_urls |-> <<>>, before |-> {},
     specs |-> <<>>, ret |-> NoRet]

\* ------------------------------------------------------------- SQL helpers
Pair(r) == <<r.status_code, r.res_body>>

RowsByUrl(url) == {a \in assets : a.url = url}
RowsById(id) == {a \in assets : a.id = id}

Min(S) == CHOOSE x \in S : \A y \in S : x <= y

\* SELECT id FROM assets WHERE url = ?  (fetch_optional: the first row)
SelectIdByUrl(url) ==
    IF RowsByUrl(url) = {} THEN <<>>
    ELSE <<Min({a.id : a \in RowsByUrl(url)})>>

\* Whether any findings or asset_history row references asset `id`.
Referenced(id) ==
    \/ \E i \in 1..Len(findings) : findings[i].asset_id = id
    \/ \E i \in 1..Len(asset_history) : asset_history[i].asset_id = id

\* An INSERT that no FOREIGN KEY clause is checked for.
FkInsertUnchecked(id) == TRUE

\* A FOREIGN KEY check of an INSERT naming asset `id`.
FkInsertOk(id) == ~foreign_keys \/ RowsById(id) # {}

\* A FOREIGN KEY check of a DELETE of the asset rows `rows`.
FkDeleteOk(rows) == ~foreign_keys \/ \A a \in rows : ~Referenced(a.id)

HistoryOf(id) == SelectSeq(asset_history, LAMBDA h : h.asset_id = id)

\* ------------------------------------------------------------ add_asset
\* A comparison against the wrong column.
ChangedWrongColumn(req, existing) ==
    req.status_code # existing[1] \/ req.res_body # existing[1]

\* assets.rs:66
Changed(req, existing) ==
    req.status_code # existing[1] \/ req.res_body # existing[2]

\* A history INSERT that binds no status.
HistoryRowNoStatus(id, existing) ==
    [asset_id |-> id, status_code |-> NULL, res_body |-> existing[2],
     timestamp |-> clock]

\* A history INSERT that snapshots the row as it is stored when it runs.
HistoryRowAsStored(id, existing) ==
    IF \E a \in assets : a.id = id
    THEN LET a == CHOOSE r \in assets : r.id = id
         IN [asset_id |-> id, status_code |-> a.status_code,
             res_body |-> a.res_body, timestamp |-> clock]
    ELSE [asset_id |-> id, status_code |-> existing[1],
          res_body |-> existing[2], timestamp |-> clock]

\* assets.rs:71-76: the row stored by the history INSERT
HistoryRow(id, existing) ==
    [asset_id |-> id, status_code |-> existing[1], res_body |-> existing[2],
     timestamp |-> clock]

\* How a command ends: the task holds what it returns until the caller
\* takes it.
Return(t, kind, id) ==
    [IdleTask EXCEPT !.pc = "returned", !.op = tk[t].op,
                     !.ret = [kind |-> kind, id |-> id,
                              added |-> tk[t].added, skipped |-> tk[t].skipped]]

\* The end of one add_asset call with result `kind`: the command returns,
\* or batch_import_full counts it and moves to its next entry
\* (assets.rs:238-255).
AfterAddAsset(t, kind, id) ==
    IF tk[t].op = "batch_import_full"
    THEN LET added == tk[t].added + (IF kind = "ok" THEN 1 ELSE 0)
             skipped == tk[t].skipped + (IF kind = "ok" THEN 0 ELSE 1)
         IN IF tk[t].rest = <<>>
            THEN [IdleTask EXCEPT !.pc = "returned", !.op = tk[t].op,
                                  !.ret = [kind |-> "ok", id |-> <<>>,
                                           added |-> added, skipped |-> skipped]]
            ELSE [IdleTask EXCEPT !.pc = "select_id", !.op = "batch_import_full",
                                  !.req = Head(tk[t].rest),
                                  !.todo = Head(tk[t].rest).findings,
                                  !.rest = Tail(tk[t].rest),
                                  !.added = added, !.skipped = skipped]
    ELSE Return(t, kind, id)

\* A command can be invoked on a free task, while the bound on the number
\* of commands allows.  Free tasks are interchangeable: the first is taken.
CanCall(t) ==
    /\ tk[t].pc = "idle"
    /\ calls < MaxCalls
    /\ t = "cmd2" => tk["cmd1"].pc # "idle"

\* add_asset is called (assets.rs:35-48).  No spec is stored, so drift
\* detection adds nothing to the findings.
AddAssetCall(t) ==
    /\ CanCall(t)
    /\ \E req \in StoreRequests :
         tk' = [tk EXCEPT ![t] = [IdleTask EXCEPT !.pc = "select_id",
                    !.op = "add_asset", !.req = req, !.todo = req.findings]]
    /\ calls' = calls + 1
    /\ UNCHANGED non_store_vars
    /\ UNCHANGED <<assets, next_asset_id, asset_history, findings,
                   foreign_keys, clock>>

\* batch_import_full is called (assets.rs:234-247)
BatchImportFullCall(t) ==
    /\ CanCall(t)
    /\ \E entries \in ImportLists :
         tk' = [tk EXCEPT ![t] = [IdleTask EXCEPT !.pc = "select_id",
                    !.op = "batch_import_full", !.req = Head(entries),
                    !.todo = Head(entries).findings, !.rest = Tail(entries)]]
    /\ calls' = calls + 1
    /\ UNCHANGED non_store_vars
    /\ UNCHANGED <<assets, next_asset_id, asset_history, findings,
                   foreign_keys, clock>>

\* assets.rs:51-58
SelectId(t) ==
    /\ tk[t].pc = "select_id"
    /\ LET found == SelectIdByUrl(tk[t].req.url)
       IN tk' = [tk EXCEPT ![t].existing_id = found,
                           ![t].pc = IF found = <<>> THEN "insert_asset"
                                     ELSE "select_res"]
    /\ UNCHANGED non_store_vars
    /\ UNCHANGED <<assets, next_asset_id, asset_history, findings,
                   foreign_keys, clock, calls>>

\* assets.rs:60-70: fetch_one fails when the row is gone
SelectRes(t) ==
    /\ tk[t].pc = "select_res"
    /\ LET id == tk[t].existing_id[1]
       IN IF RowsById(id) = {}
          THEN tk' = [tk EXCEPT ![t] = AfterAddAsset(t, "err", <<>>)]
          ELSE LET row == CHOOSE a \in RowsById(id) : TRUE
                   existing == Pair(row)
                   changed == Changed(tk[t].req, existing)
               IN tk' = [tk EXCEPT ![t].existing_res = existing,
                            ![t].changed = changed,
                            ![t].pc = IF ~changed THEN "update_last_seen"
                                      ELSE IF existing[2] # NULL
                                           THEN "insert_history"
                                           ELSE "update_asset"]
    /\ UNCHANGED non_store_vars
    /\ UNCHANGED <<assets, next_asset_id, asset_history, findings,
                   foreign_keys, clock, calls>>

\* assets.rs:71-76: the INSERT's error is dropped
InsertHistory(t) ==
    /\ tk[t].pc = "insert_history"
    /\ LET id == tk[t].existing_id[1]
       IN asset_history' =
            IF FkInsertOk(id)
            THEN Append(asset_history, HistoryRow(id, tk[t].existing_res))
            ELSE asset_history
    /\ tk' = [tk EXCEPT ![t].pc = "update_asset"]
    /\ UNCHANGED non_store_vars
    /\ UNCHANGED <<assets, next_asset_id, findings, foreign_keys, clock, calls>>

\* An update that writes last_seen and leaves status_code and res_body.
UpdateAssetLastSeenOnly(t) ==
    /\ tk[t].pc = "update_asset"
    /\ LET id == tk[t].existing_id[1]
       IN assets' = {IF a.id = id THEN [a EXCEPT !.last_seen = clock]
                     ELSE a : a \in assets}
    /\ tk' = [tk EXCEPT ![t].asset_id = tk[t].existing_id,
                        ![t].pc = "insert_findings"]
    /\ UNCHANGED non_store_vars
    /\ UNCHANGED <<next_asset_id, asset_history, findings, foreign_keys,
                   clock, calls>>

\* assets.rs:80-86
UpdateAsset(t) ==
    /\ tk[t].pc = "update_asset"
    /\ LET id == tk[t].existing_id[1]
       IN assets' = {IF a.id = id
                     THEN [a EXCEPT !.status_code = tk[t].req.status_code,
                                    !.res_body = tk[t].req.res_body,
                                    !.last_seen = clock]
                     ELSE a : a \in assets}
    /\ tk' = [tk EXCEPT ![t].asset_id = tk[t].existing_id,
                        ![t].pc = "insert_findings"]
    /\ UNCHANGED non_store_vars
    /\ UNCHANGED <<next_asset_id, asset_history, findings, foreign_keys,
                   clock, calls>>

\* assets.rs:88-92
UpdateLastSeen(t) ==
    /\ tk[t].pc = "update_last_seen"
    /\ LET id == tk[t].existing_id[1]
       IN assets' = {IF a.id = id THEN [a EXCEPT !.last_seen = clock]
                     ELSE a : a \in assets}
    /\ tk' = [tk EXCEPT ![t].asset_id = tk[t].existing_id,
                        ![t].pc = "insert_findings"]
    /\ UNCHANGED non_store_vars
    /\ UNCHANGED <<next_asset_id, asset_history, findings, foreign_keys,
                   clock, calls>>

\* assets.rs:97-107
InsertAsset(t) ==
    /\ tk[t].pc = "insert_asset"
    /\ assets' = assets \cup
         {[id |-> next_asset_id, url |-> tk[t].req.url,
           method |-> tk[t].req.method, source |-> tk[t].req.source,
           status_code |-> tk[t].req.status_code,
           req_body |-> tk[t].req.req_body, res_body |-> tk[t].req.res_body,
           last_seen |-> clock]}
    /\ next_asset_id' = next_asset_id + 1
    /\ tk' = [tk EXCEPT ![t].asset_id = <<next_asset_id>>,
                        ![t].pc = "insert_findings"]
    /\ UNCHANGED non_store_vars
    /\ UNCHANGED <<asset_history, findings, foreign_keys, clock, calls>>

\* An INSERT that leaves out a finding the table already holds for the asset.
InsertFindingsOnce(t) ==
    /\ tk[t].pc = "insert_findings"
    /\ LET id == tk[t].asset_id[1]
       IN IF tk[t].todo = <<>>
          THEN /\ tk' = [tk EXCEPT ![t] = AfterAddAsset(t, "ok", tk[t].asset_id)]
               /\ findings' = findings
          ELSE LET row == [asset_id |-> id, rule_id |-> Head(tk[t].todo)]
               IN /\ findings' = IF \E n \in 1..Len(findings) : findings[n] = row
                                 THEN findings ELSE Append(findings, row)
                  /\ tk' = [tk EXCEPT ![t].todo = Tail(tk[t].todo)]
    /\ UNCHANGED non_store_vars
    /\ UNCHANGED <<assets, next_asset_id, asset_history, foreign_keys, clock,
                   calls>>

\* assets.rs:111-127: one INSERT per finding, then Ok(asset_id)
InsertFindings(t) ==
    /\ tk[t].pc = "insert_findings"
    /\ LET id == tk[t].asset_id[1]
       IN IF tk[t].todo = <<>>
          THEN /\ tk' = [tk EXCEPT ![t] = AfterAddAsset(t, "ok", tk[t].asset_id)]
               /\ findings' = findings
          ELSE IF FkInsertOk(id)
               THEN /\ findings' = Append(findings,
                          [asset_id |-> id, rule_id |-> Head(tk[t].todo)])
                    /\ tk' = [tk EXCEPT ![t].todo = Tail(tk[t].todo)]
               ELSE /\ findings' = findings
                    /\ tk' = [tk EXCEPT ![t] = AfterAddAsset(t, "err", <<>>)]
    /\ UNCHANGED non_store_vars
    /\ UNCHANGED <<assets, next_asset_id, asset_history, foreign_keys, clock,
                   calls>>

\* ----------------------------------------------------- batch_add_assets
\* assets.rs:160-165
BatchAddAssetsCall(t) ==
    /\ CanCall(t)
    /\ \E urls \in UrlLists :
         tk' = [tk EXCEPT ![t] = [IdleTask EXCEPT !.pc = "b_select",
                    !.op = "batch_add_assets", !.urls = urls,
                    !.request_urls = urls, !.before = assets,
                    !.source = "Import"]]
    /\ calls' = calls + 1
    /\ UNCHANGED non_store_vars
    /\ UNCHANGED <<assets, next_asset_id, asset_history, findings,
                   foreign_keys, clock>>

\* A batch that inserts every URL of its list without looking it up.
BatchSelectNoLookup(t) ==
    /\ tk[t].pc = "b_select"
    /\ IF tk[t].urls = <<>>
       THEN tk' = [tk EXCEPT ![t] = Return(t, "ok", <<>>)]
       ELSE tk' = [tk EXCEPT ![t].existing_id = <<>>, ![t].pc = "b_insert"]
    /\ UNCHANGED non_store_vars
    /\ UNCHANGED <<assets, next_asset_id, asset_history, findings,
                   foreign_keys, clock, calls>>

\* assets.rs:165-174 and, the list exhausted, 193
BatchSelect(t) ==
    /\ tk[t].pc = "b_select"
    /\ IF tk[t].urls = <<>>
       THEN tk' = [tk EXCEPT ![t] = Return(t, "ok", <<>>)]
       ELSE LET found == SelectIdByUrl(Head(tk[t].urls))
            IN tk' = [tk EXCEPT ![t].existing_id = found,
                         ![t].pc = IF found = <<>> THEN "b_insert"
                                   ELSE "b_update"]
    /\ UNCHANGED non_store_vars
    /\ UNCHANGED <<assets, next_asset_id, asset_history, findings,
                   foreign_keys, clock, calls>>

\* assets.rs:176-180
BatchUpdate(t) ==
    /\ tk[t].pc = "b_update"
    /\ assets' = {IF a.url = Head(tk[t].urls) THEN [a EXCEPT !.last_seen = clock]
                  ELSE a : a \in assets}
    /\ tk' = [tk EXCEPT ![t].skipped = tk[t].skipped + 1,
                        ![t].urls = Tail(tk[t].urls), ![t].pc = "b_select"]
    /\ UNCHANGED non_store_vars
    /\ UNCHANGED <<next_asset_id, asset_history, findings, foreign_keys,
                   clock, calls>>

\* assets.rs:183-189
BatchInsert(t) ==
    /\ tk[t].pc = "b_insert"
    /\ assets' = assets \cup
         {[id |-> next_asset_id, url |-> Head(tk[t].urls), method |-> "GET",
           source |-> tk[t].source, status_code |-> NULL, req_body |-> NULL,
           res_body |-> NULL, last_seen |-> clock]}
    /\ next_asset_id' = next_asset_id + 1
    /\ tk' = [tk EXCEPT ![t].added = tk[t].added + 1,
                        ![t].urls = Tail(tk[t].urls), ![t].pc = "b_select"]
    /\ UNCHANGED non_store_vars
    /\ UNCHANGED <<asset_history, findings, foreign_keys, clock, calls>>

\* -------------------------------------- delete_asset and clear_inventory
\* assets.rs:376-377; the id is one that was handed out, or the next one
DeleteAssetCall(t) ==
    /\ CanCall(t)
    /\ \E id \in 1..next_asset_id :
         tk' = [tk EXCEPT ![t] = [IdleTask EXCEPT !.pc = "d_findings",
                    !.op = "delete_asset", !.existing_id = <<id>>]]
    /\ calls' = calls + 1
    /\ UNCHANGED non_store_vars
    /\ UNCHANGED <<assets, next_asset_id, asset_history, findings,
                   foreign_keys, clock>>

\* A delete_asset that goes to the asset row with the findings left in place.
DeleteFindingsSkipped(t) ==
    /\ tk[t].pc = "d_findings"
    /\ tk' = [tk EXCEPT ![t].pc = "d_asset"]
    /\ UNCHANGED non_store_vars
    /\ UNCHANGED <<assets, next_asset_id, asset_history, findings, foreign_keys,
                   clock, calls>>

\* assets.rs:381-384
DeleteFindings(t) ==
    /\ tk[t].pc = "d_findings"
    /\ findings' = SelectSeq(findings,
                       LAMBDA f : f.asset_id # tk[t].existing_id[1])
    /\ tk' = [tk EXCEPT ![t].pc = "d_asset"]
    /\ UNCHANGED non_store_vars
    /\ UNCHANGED <<assets, next_asset_id, asset_history, foreign_keys, clock,
                   calls>>

\* assets.rs:386-392
DeleteAssetRow(t) ==
    /\ tk[t].pc = "d_asset"
    /\ LET rows == RowsById(tk[t].existing_id[1])
       IN IF FkDeleteOk(rows)
          THEN /\ assets' = assets \ rows
               /\ tk' = [tk EXCEPT ![t] = Return(t, "ok", <<>>)]
          ELSE /\ assets' = assets
               /\ tk' = [tk EXCEPT ![t] = Return(t, "err", <<>>)]
    /\ UNCHANGED non_store_vars
    /\ UNCHANGED <<next_asset_id, asset_history, findings, foreign_keys,
                   clock, calls>>

\* assets.rs:426-427
ClearInventoryCall(t) ==
    /\ CanCall(t)
    /\ tk' = [tk EXCEPT ![t] = [IdleTask EXCEPT !.pc = "c_findings",
                                   !.op = "clear_inventory"]]
    /\ calls' = calls + 1
    /\ UNCHANGED non_store_vars
    /\ UNCHANGED <<assets, next_asset_id, asset_history, findings,
                   foreign_keys, clock>>

\* assets.rs:429-431
ClearFindings(t) ==
    /\ tk[t].pc = "c_findings"
    /\ findings' = <<>>
    /\ tk' = [tk EXCEPT ![t].pc = "c_assets"]
    /\ UNCHANGED non_store_vars
    /\ UNCHANGED <<assets, next_asset_id, asset_history, foreign_keys, clock,
                   calls>>

\* assets.rs:433-438
ClearAssets(t) ==
    /\ tk[t].pc = "c_assets"
    /\ IF FkDeleteOk(assets)
       THEN /\ assets' = {}
            /\ tk' = [tk EXCEPT ![t] = Return(t, "ok", <<>>)]
       ELSE /\ assets' = assets
            /\ tk' = [tk EXCEPT ![t] = Return(t, "err", <<>>)]
    /\ UNCHANGED non_store_vars
    /\ UNCHANGED <<next_asset_id, asset_history, findings, foreign_keys,
                   clock, calls>>

\* The caller takes the command's result; the task is free again.
TaskReturn(t) ==
    /\ tk[t].pc = "returned"
    /\ tk' = [tk EXCEPT ![t] = IdleTask]
    /\ UNCHANGED non_store_vars
    /\ UNCHANGED <<assets, next_asset_id, asset_history, findings,
                   foreign_keys, clock, calls>>

\* Time passes: CURRENT_TIMESTAMP advances.
Tick ==
    /\ clock < MaxClock
    /\ clock' = clock + 1
    /\ UNCHANGED non_store_vars
    /\ UNCHANGED <<assets, next_asset_id, asset_history, findings,
                   foreign_keys, tk, calls>>

\* ------------------------------------- proxy lifecycle (lib.rs, proxy.rs)
MaxServers == 3
MaxIds == 4
MaxResolves == 2
MaxConfigSets == 1

Servers == 1..MaxServers
\* Correlation ids (uuid v4, proxy.rs:76, 152) in the order they are drawn;
\* UnknownId stands for every id the proxy never drew.
Ids == 1..MaxIds
UnknownId == 0
Starters == {"start1", "start2"}
Resolvers == {"ui1", "ui2"}

IdleStarter == [pc |-> "idle", ret |-> "none"]

\* The server tasks that hold the listening socket.
Serving == {s \in Servers : server[s] = "serving"}

\* The flows server task s accepted that have not ended.
InFlight(s) ==
    {f \in Flows : flow[f].server = s /\ flow[f].pc \notin {"idle", "done", "failed"}}

\* lib.rs:97-103: the flag is loaded; a set flag is the error
StartLoad(c) ==
    /\ sc[c].pc = "idle"
    /\ next_server <= MaxServers
    /\ c = "start2" => sc["start1"].pc # "idle"
    /\ sc' = [sc EXCEPT ![c] = IF running
                                THEN [pc |-> "returned", ret |-> "err"]
                                ELSE [pc |-> "store", ret |-> "none"]]
    /\ UNCHANGED <<running, server, next_server>>
    /\ UNCHANGED <<config_vars, pending_vars, resolve_vars, flow>>
    /\ UNCHANGED non_proxy_vars

\* lib.rs:104-112: the flag is stored, the server task spawned, Ok returned
StartStore(c) ==
    /\ sc[c].pc = "store"
    /\ next_server <= MaxServers
    /\ running' = TRUE
    /\ server' = [server EXCEPT ![next_server] = "spawned"]
    /\ next_server' = next_server + 1
    /\ sc' = [sc EXCEPT ![c] = [pc |-> "returned", ret |-> "ok"]]
    /\ UNCHANGED <<config_vars, pending_vars, resolve_vars, flow>>
    /\ UNCHANGED non_proxy_vars

\* The caller takes start_proxy_server's result.
StartReturn(c) ==
    /\ sc[c].pc = "returned"
    /\ sc' = [sc EXCEPT ![c] = IdleStarter]
    /\ UNCHANGED <<running, server, next_server>>
    /\ UNCHANGED <<config_vars, pending_vars, resolve_vars, flow>>
    /\ UNCHANGED non_proxy_vars

\* lib.rs:115-118
StopProxyServer ==
    /\ running' = FALSE
    /\ UNCHANGED <<server, next_server, sc>>
    /\ UNCHANGED <<config_vars, pending_vars, resolve_vars, flow>>
    /\ UNCHANGED non_proxy_vars

\* proxy.rs:19-33: Server::bind panics when the port is taken
ServerBind(s) ==
    /\ server[s] = "spawned"
    /\ server' = [server EXCEPT ![s] = IF Serving = {} THEN "serving"
                                       ELSE "panicked"]
    /\ UNCHANGED <<running, next_server, sc>>
    /\ UNCHANGED <<config_vars, pending_vars, resolve_vars, flow>>
    /\ UNCHANGED non_proxy_vars

\* proxy.rs:35-40: a poll of the flag finds it cleared; the server stops
\* accepting.  A poll that finds it set sleeps and changes nothing.
ServerPoll(s) ==
    /\ server[s] = "serving"
    /\ ~running
    /\ server' = [server EXCEPT ![s] = "draining"]
    /\ UNCHANGED <<running, next_server, sc>>
    /\ UNCHANGED <<config_vars, pending_vars, resolve_vars, flow>>
    /\ UNCHANGED non_proxy_vars

\* proxy.rs:42-45: the graceful shutdown ends once no flow is in flight
ServerFinish(s) ==
    /\ server[s] = "draining"
    /\ InFlight(s) = {}
    /\ server' = [server EXCEPT ![s] = "done"]
    /\ UNCHANGED <<running, next_server, sc>>
    /\ UNCHANGED <<config_vars, pending_vars, resolve_vars, flow>>
    /\ UNCHANGED non_proxy_vars

\* lib.rs:120-130: the three flags are stored
SetProxyInterceptionConfig ==
    /\ config_sets < MaxConfigSets
    /\ capture_body' \in BOOLEAN
    /\ intercept_requests' \in BOOLEAN
    /\ intercept_responses' \in BOOLEAN
    /\ config_sets' = config_sets + 1
    /\ UNCHANGED <<pending_vars, life_vars, resolve_vars, flow>>
    /\ UNCHANGED non_proxy_vars

\* --------------------------------------- resolve_interception (lib.rs)
Forward == [tag |-> "Forward"]
Drop == [tag |-> "Drop"]
ModifyRequest(method, url, headers, body) ==
    [tag |-> "ModifyRequest", method |-> method, url |-> url,
     headers |-> headers, body |-> body]
ModifyResponse(status, headers, body) ==
    [tag |-> "ModifyResponse", status |-> status, headers |-> headers,
     body |-> body]

\* The decisions the operator is tried with.
InterceptResults ==
    {Forward, Drop, ModifyRequest("POST", "http://h/y", {}, "a=2"),
     ModifyResponse("500", {}, "b")}

IdleResolver == [pc |-> "idle", id |-> 0, action |-> Forward, ret |-> "none"]

NoChan == [rx |-> "none", sent |-> <<>>]

\* A registration that never reaches the map.
DashInsertSkipped(map, id) == map

\* DashMap::insert (proxy.rs:78, 154): the map with the key
DashInsert(map, id) == map \cup {id}

\* A lookup that leaves the entry in the map.
DashGet(map, id) == map

\* DashMap::remove (lib.rs:138, 141): the map without the key
DashRemove(map, id) == map \ {id}

\* oneshot::Sender::send (lib.rs:139, 142): the value reaches the channel
\* unless the receiver is gone; the error is dropped
Send(id, action) ==
    IF chan[id].rx = "dropped" THEN chan
    ELSE [chan EXCEPT ![id].sent = Append(@, action)]

\* The ids drawn so far.
KnownIds == {i \in Ids : i < next_corr}

\* lib.rs:133-137: the command is invoked with an id and a decision
ResolveCall(c) ==
    /\ rc[c].pc = "idle"
    /\ resolves < MaxResolves
    /\ c = "ui2" => rc["ui1"].pc # "idle"
    /\ \E id \in KnownIds \cup {UnknownId}, a \in InterceptResults :
         rc' = [rc EXCEPT ![c] = [pc |-> "try_requests", id |-> id,
                                   action |-> a, ret |-> "none"]]
    /\ resolves' = resolves + 1
    /\ UNCHANGED <<ok_resolves, config_vars, pending_vars, life_vars, flow>>
    /\ UNCHANGED non_proxy_vars

\* lib.rs:138-140
ResolveRequests(c) ==
    /\ rc[c].pc = "try_requests"
    /\ IF rc[c].id \in pending_requests
       THEN /\ pending_requests' = DashRemove(pending_requests, rc[c].id)
            /\ chan' = Send(rc[c].id, rc[c].action)
            /\ rc' = [rc EXCEPT ![c].pc = "returned", ![c].ret = "ok"]
            /\ ok_resolves' = [ok_resolves EXCEPT ![rc[c].id] = @ + 1]
       ELSE /\ rc' = [rc EXCEPT ![c].pc = "try_responses"]
            /\ UNCHANGED <<pending_requests, chan, ok_resolves>>
    /\ UNCHANGED <<pending_responses, next_corr, resolves>>
    /\ UNCHANGED <<config_vars, life_vars, flow>>
    /\ UNCHANGED non_proxy_vars

\* lib.rs:141-146
ResolveResponses(c) ==
    /\ rc[c].pc = "try_responses"
    /\ IF rc[c].id \in pending_responses
       THEN /\ pending_responses' = DashRemove(pending_responses, rc[c].id)
            /\ chan' = Send(rc[c].id, rc[c].action)
            /\ rc' = [rc EXCEPT ![c].pc = "returned", ![c].ret = "ok"]
            /\ ok_resolves' = [ok_resolves EXCEPT ![rc[c].id] = @ + 1]
       ELSE /\ rc' = [rc EXCEPT ![c].pc = "returned", ![c].ret = "not_found"]
            /\ UNCHANGED <<pending_responses, chan, ok_resolves>>
    /\ UNCHANGED <<pending_requests, next_corr, resolves>>
    /\ UNCHANGED <<config_vars, life_vars, flow>>
    /\ UNCHANGED non_proxy_vars

\* The caller takes resolve_interception's result.
ResolveReturn(c) ==
    /\ rc[c].pc = "returned"
    /\ rc' = [rc EXCEPT ![c] = IdleResolver]
    /\ UNCHANGED <<resolves, ok_resolves, config_vars, pending_vars, life_vars,
                   flow>>
    /\ UNCHANGED non_proxy_vars

\* ----------------------------------------- handle_request (proxy.rs)
HttpRequest(method, url, headers, body) ==
    [method |-> method, url |-> url, headers |-> headers, body |-> body]
HttpResponse(status, headers, body) ==
    [status |-> status, headers |-> headers, body |-> body]

\* The requests clients send through the proxy: a form post and a
\* WebSocket upgrade.
ProxyRequests ==
    {HttpRequest("POST", "http://h/x", {}, "a=1"),
     HttpRequest("GET", "http://h/x", {<<"upgrade", "websocket">>}, "hello")}

\* What the upstream answers.
UpstreamResponses ==
    {HttpResponse("200", {}, "a"), HttpResponse("500", {}, "b")}

NoHttpRequest == HttpRequest(NULL, NULL, {}, NULL)
NoHttpResponse == HttpResponse(NULL, {}, NULL)

IdleFlow ==
    [pc |-> "idle", server |-> 0, tunnel |-> NULL, received |-> NoHttpRequest,
     req |-> NoHttpRequest, capture_body |-> FALSE,
     body_str |-> NULL, req_body_str |-> NULL, id |-> <<>>, decisions |-> <<>>,
     is_websocket |-> FALSE, url |-> NULL, method |-> NULL, upstream |-> <<>>,
     answer |-> NoHttpResponse, response |-> NoHttpResponse,
     res_body_str |-> NULL, client |-> <<>>,
     events |-> <<>>]

\* Option::unwrap_or_default of a body (proxy.rs:120, 185)
UnwrapOrDefault(body) == IF body = NULL THEN "" ELSE body

\* analysis::Scanner::scan_text (proxy.rs:213-219), with the rule set that
\* gives FindingsOf.
ScanText(text) == FindingsOf(text)

\* The receiving end of the channel of `id` takes the decision sent
\* (proxy.rs:93, 170).
Received(id) == [chan EXCEPT ![id].rx = "taken"]

\* A server task accepts a request (proxy.rs:22-29, 47-65).  Free flows are
\* interchangeable: the first is taken.
FlowAccept(f) ==
    /\ flow[f].pc = "idle"
    /\ f = "flow2" => flow["flow1"].pc # "idle"
    /\ \E s \in Serving, req \in ProxyRequests :
         flow' = [flow EXCEPT ![f] = [IdleFlow EXCEPT !.pc = "read_flags",
                                         !.server = s, !.received = req,
                                         !.req = req]]
    /\ UNCHANGED <<config_vars, pending_vars, life_vars, resolve_vars>>
    /\ UNCHANGED non_proxy_vars

\* proxy.rs:67-70
ReadFlags(f) ==
    /\ flow[f].pc = "read_flags"
    /\ flow' = [flow EXCEPT ![f].capture_body = capture_body,
                            ![f].pc = IF capture_body \/ intercept_requests
                                      THEN "read_body" ELSE "forward"]
    /\ UNCHANGED <<config_vars, pending_vars, life_vars, resolve_vars>>
    /\ UNCHANGED non_proxy_vars

\* proxy.rs:71-91 and 126-129: the body is read, the flag read again; the
\* request is registered under a new id and shown to the operator, or its
\* body kept for the asset
ReadBody(f) ==
    /\ flow[f].pc = "read_body"
    /\ next_corr \in Ids
    /\ IF intercept_requests
       THEN /\ pending_requests' = DashInsert(pending_requests, next_corr)
            /\ chan' = [chan EXCEPT ![next_corr] = [rx |-> "open", sent |-> <<>>]]
            /\ next_corr' = next_corr + 1
            /\ flow' = [flow EXCEPT
                  ![f].body_str = flow[f].req.body,
                  ![f].id = <<next_corr>>,
                  ![f].events = Append(@, [event |-> "proxy-intercept-request",
                                           id |-> next_corr,
                                           method |-> flow[f].req.method,
                                           url |-> flow[f].req.url,
                                           body |-> flow[f].req.body]),
                  ![f].pc = "await_request"]
       ELSE /\ flow' = [flow EXCEPT ![f].body_str = flow[f].req.body,
                                    ![f].req_body_str = flow[f].req.body,
                                    ![f].pc = "forward"]
            /\ UNCHANGED <<pending_requests, chan, next_corr>>
    /\ UNCHANGED <<pending_responses, config_vars, life_vars, resolve_vars>>
    /\ UNCHANGED non_proxy_vars

\* The fixed reply to a dropped request (proxy.rs:98-101)
DroppedReply == HttpResponse("403", {}, "Request dropped by APISec Interceptor")

\* A handler that goes on without the decision.
DecisionUnawaited(id) ==
    IF chan[id].sent = <<>> THEN <<Forward>> ELSE chan[id].sent

\* rx.await (proxy.rs:93, 170): nothing while no decision has been sent
Decision(id) == chan[id].sent

\* A request phase that forwards whatever the decision.
AfterRequestAlwaysForward(d) == "forward"

\* proxy.rs:94-102: Drop ends the flow, every other decision goes upstream
AfterRequestDecision(d) == IF d.tag = "Drop" THEN "done" ELSE "forward"

\* A request phase that takes its body from any decision carrying one.
ModifiedByAnyDecision(req, d) ==
    IF d.tag = "ModifyRequest"
    THEN HttpRequest(d.method, d.url, d.headers, UnwrapOrDefault(d.body))
    ELSE IF d.tag = "ModifyResponse"
         THEN HttpRequest(req.method, req.url, d.headers, UnwrapOrDefault(d.body))
         ELSE req

\* Method::from_bytes (proxy.rs:105): <<the method>> of a non-empty string
\* of token characters, <<>> (Err) of any other
MethodFromBytes(method) ==
    IF method \in {"GET", "POST", "PUT"} THEN <<method>> ELSE <<>>

\* str::parse::<Uri> (proxy.rs:108): <<the URI>>, or <<>> (Err) of the
\* empty string and of a string with a space in it
UriParse(url) ==
    IF url \in {"http://h/x", "http://h/y", "/y"} THEN <<url>> ELSE <<>>

\* HeaderName::from_bytes (proxy.rs:114): <<the name in lower case>>, or
\* <<>> (Err) of a name that is not a token
HeaderNameFromBytes(k) ==
    CASE k = "X-Test"  -> <<"x-test">>
      [] k = "x-test"  -> <<"x-test">>
      [] k = "upgrade" -> <<"upgrade">>
      [] k = "host"    -> <<"host">>
      [] OTHER         -> <<>>

\* HeaderValue::from_bytes (proxy.rs:115): <<the value>>, or <<>> (Err) of a
\* value with a control character in it
HeaderValueFromBytes(v) ==
    IF v \in {"1", "2", "websocket", "example.test", "api.test"}
    THEN <<v>> ELSE <<>>

\* proxy.rs:111-119: the header map cleared, then each pair of the decision
\* inserted when its name and its value both convert.  The names of a
\* decision are distinct once in lower case, so no insert replaces another.
InsertedHeaders(new_headers) ==
    {<<HeaderNameFromBytes(p[1])[1], HeaderValueFromBytes(p[2])[1]>> :
        p \in {q \in new_headers : /\ HeaderNameFromBytes(q[1]) # <<>>
                                   /\ HeaderValueFromBytes(q[2]) # <<>>}}

\* A modification that is applied as a whole or not at all.
ModifiedAllOrNothing(req, d) ==
    IF /\ d.tag = "ModifyRequest"
       /\ MethodFromBytes(d.method) # <<>>
       /\ UriParse(d.url) # <<>>
       /\ \A p \in d.headers : /\ HeaderNameFromBytes(p[1]) # <<>>
                               /\ HeaderValueFromBytes(p[2]) # <<>>
    THEN HttpRequest(d.method, d.url, InsertedHeaders(d.headers),
                     UnwrapOrDefault(d.body))
    ELSE req

\* proxy.rs:94-124: the request that goes on after decision d
ModifiedRequest(req, d) ==
    IF d.tag = "ModifyRequest"
    THEN HttpRequest(
            IF MethodFromBytes(d.method) # <<>>
            THEN MethodFromBytes(d.method)[1] ELSE req.method,
            IF UriParse(d.url) # <<>> THEN UriParse(d.url)[1] ELSE req.url,
            InsertedHeaders(d.headers),
            UnwrapOrDefault(d.body))
    ELSE req

\* The ModifyRequest decisions the request phase is evaluated on: a method,
\* a URL and headers that convert, and ones that do not.
DecisionMethods == {"PUT", "PO ST", ""}
DecisionUrls == {"http://h/y", "http://h/ y"}
DecisionHeaders ==
    SUBSET {<<"X-Test", "1">>, <<"bad name", "2">>, <<"upgrade", "a\nb">>}
ModifyDecisions ==
    {ModifyRequest(m, u, h, b) :
        m \in DecisionMethods, u \in DecisionUrls, h \in DecisionHeaders,
        b \in {NULL, "a=2"}}

\* proxy.rs:93-124: the match on the decision received, evaluated
ApplyModifiedRequest ==
    /\ args.fn = "modified_request"
    /\ ret = <<>>
    /\ ret' = <<ModifiedRequest(args.req, args.d)>>
    /\ UNCHANGED <<args, store_vars, cert_vars, proxy_vars>>

\* A response phase that replaces the response on any decision but Forward.
ResponseModifiedByAny(response, d) ==
    IF d.tag = "ModifyResponse"
    THEN HttpResponse(d.status, d.headers, UnwrapOrDefault(d.body))
    ELSE IF d.tag = "Forward" THEN response ELSE NoHttpResponse

\* proxy.rs:170-189: the response that goes on after decision d.  The
\* status of the decisions tried is a status code.
ModifiedResponse(response, d) ==
    IF d.tag = "ModifyResponse"
    THEN HttpResponse(d.status, d.headers, UnwrapOrDefault(d.body))
    ELSE response

\* proxy.rs:93-125: the decision arrives
RequestDecision(f) ==
    /\ flow[f].pc = "await_request"
    /\ chan[flow[f].id[1]].rx = "open"
    /\ Decision(flow[f].id[1]) # <<>>
    /\ LET d == Head(Decision(flow[f].id[1]))
       IN flow' = [flow EXCEPT
             ![f].decisions = Append(@, [stage |-> "request", action |-> d]),
             ![f].req = ModifiedRequest(@, d),
             ![f].client = IF d.tag = "Drop" THEN <<DroppedReply>> ELSE @,
             ![f].pc = AfterRequestDecision(d)]
    /\ chan' = Received(flow[f].id[1])
    /\ UNCHANGED <<pending_requests, pending_responses, next_corr>>
    /\ UNCHANGED <<config_vars, life_vars, resolve_vars>>
    /\ UNCHANGED non_proxy_vars

\* proxy.rs:135-145: the request goes upstream, which answers, or the
\* request fails and the handler returns the error
ForwardUpstream(f) ==
    /\ flow[f].pc = "forward"
    /\ \E r \in UpstreamResponses, ok \in BOOLEAN :
         flow' = [flow EXCEPT
            ![f].is_websocket = <<"upgrade", "websocket">> \in flow[f].req.headers,
            ![f].url = flow[f].req.url,
            ![f].method = flow[f].req.method,
            ![f].upstream = <<flow[f].req>>,
            ![f].answer = IF ok THEN r ELSE @,
            ![f].response = IF ok THEN r ELSE @,
            ![f].pc = IF ok THEN "response_flags" ELSE "failed"]
    /\ UNCHANGED <<config_vars, pending_vars, life_vars, resolve_vars>>
    /\ UNCHANGED non_proxy_vars

\* proxy.rs:147-168: the response is registered under a new id and shown to
\* the operator
ResponseFlags(f) ==
    /\ flow[f].pc = "response_flags"
    /\ next_corr \in Ids
    /\ IF intercept_responses /\ ~flow[f].is_websocket
       THEN /\ pending_responses' = DashInsert(pending_responses, next_corr)
            /\ chan' = [chan EXCEPT ![next_corr] = [rx |-> "open", sent |-> <<>>]]
            /\ next_corr' = next_corr + 1
            /\ flow' = [flow EXCEPT
                  ![f].id = <<next_corr>>,
                  ![f].events = Append(@, [event |-> "proxy-intercept-response",
                                           id |-> next_corr,
                                           method |-> flow[f].method,
                                           url |-> flow[f].url,
                                           body |-> flow[f].response.body]),
                  ![f].pc = "await_response"]
       ELSE /\ flow' = [flow EXCEPT ![f].pc = "capture"]
            /\ UNCHANGED <<pending_responses, chan, next_corr>>
    /\ UNCHANGED <<pending_requests, config_vars, life_vars, resolve_vars>>
    /\ UNCHANGED non_proxy_vars

\* proxy.rs:170-190: the decision arrives
ResponseDecision(f) ==
    /\ flow[f].pc = "await_response"
    /\ chan[flow[f].id[1]].rx = "open"
    /\ Decision(flow[f].id[1]) # <<>>
    /\ LET d == Head(Decision(flow[f].id[1]))
       IN flow' = [flow EXCEPT
             ![f].decisions = Append(@, [stage |-> "response", action |-> d]),
             ![f].response = ModifiedResponse(@, d),
             ![f].pc = "capture"]
    /\ chan' = Received(flow[f].id[1])
    /\ UNCHANGED <<pending_requests, pending_responses, next_corr>>
    /\ UNCHANGED <<config_vars, life_vars, resolve_vars>>
    /\ UNCHANGED non_proxy_vars

\* The client disconnects while the handler awaits the decision
\* (proxy.rs:93, 170): the handler's future is dropped and with it the
\* receiving end of the channel.  Nothing is done to the pending tables.
FlowAbort(f) ==
    /\ flow[f].pc \in {"await_request", "await_response"}
    /\ flow' = [flow EXCEPT ![f].pc = "aborted"]
    /\ chan' = [chan EXCEPT ![flow[f].id[1]].rx = "dropped"]
    /\ UNCHANGED <<pending_requests, pending_responses, next_corr>>
    /\ UNCHANGED <<config_vars, life_vars, resolve_vars>>
    /\ UNCHANGED non_proxy_vars

\* A capture that keeps the response body whatever the flags.
ResBodyStrAlways(f) == flow[f].response.body

\* proxy.rs:194-206: the response body kept for the asset
ResBodyStr(f) ==
    IF (flow[f].capture_body \/ intercept_responses) /\ ~flow[f].is_websocket
    THEN flow[f].response.body ELSE NULL

\* proxy.rs:208-220: the findings of the URL and of the two kept bodies
ScanFlow(f) ==
    ScanText(flow[f].url)
    \o (IF flow[f].req_body_str # NULL THEN ScanText(flow[f].req_body_str)
        ELSE <<>>)
    \o (IF ResBodyStr(f) # NULL THEN ScanText(ResBodyStr(f)) ELSE <<>>)

\* proxy.rs:238-246: the asset the flow is recorded as
IngestRequest(f) ==
    CreateAssetRequest(flow[f].url,
                       IF flow[f].is_websocket THEN "Live Proxy (WS)"
                       ELSE "Live Proxy",
                       flow[f].method, flow[f].response.status,
                       flow[f].req_body_str, ResBodyStr(f), ScanFlow(f))

\* proxy.rs:194-250: the capture, the scan, the traffic event, the spawned
\* add_asset and the answer to the client
ScanAndIngest(f) ==
    /\ flow[f].pc = "capture"
    /\ tk[f].pc = "idle"
    /\ flow' = [flow EXCEPT ![f].events =
                     Append(@, [event |-> "proxy-traffic",
                                method |-> flow[f].method,
                                url |-> flow[f].url,
                                status |-> flow[f].response.status,
                                is_websocket |-> flow[f].is_websocket,
                                captured_vulnerabilities |-> Len(ScanFlow(f))]),
                            ![f].res_body_str = ResBodyStr(f),
                            ![f].client = <<flow[f].response>>,
                            ![f].pc = "done"]
    /\ tk' = [tk EXCEPT ![f] = [IdleTask EXCEPT !.pc = "select_id",
                 !.op = "add_asset", !.req = IngestRequest(f),
                 !.todo = IngestRequest(f).findings]]
    /\ UNCHANGED <<config_vars, pending_vars, life_vars, resolve_vars>>
    /\ UNCHANGED <<cert_vars, eval_vars>>
    /\ UNCHANGED <<assets, next_asset_id, asset_history, findings,
                   foreign_keys, clock, calls>>

\* ------------------------------------------- CertManager (certs.rs)
MaxCertCalls == 3

Hosts == {"example.test", "api.test"}
CertCallers == {"mitm1", "mitm2"}

IdleCaller == [pc |-> "idle", host |-> NULL, leaf |-> <<>>, config |-> <<>>]

\* A mutex that excludes nobody.
LockFreeAlways(holder) == TRUE

\* certs.rs:35: tokio's Mutex is free when nobody holds it
LockFree(holder) == holder = NULL

\* handle_mitm calls get_server_config for the CONNECT host (proxy.rs:278)
GetServerConfigCall(c) ==
    /\ gc[c].pc = "idle"
    /\ cert_calls < MaxCertCalls
    /\ c = "mitm2" => gc["mitm1"].pc # "idle"
    /\ \E h \in Hosts : gc' = [gc EXCEPT ![c] = [IdleCaller EXCEPT
                                    !.pc = "lock", !.host = h]]
    /\ cert_calls' = cert_calls + 1
    /\ UNCHANGED <<cert_lock, cert_cache, cert_signs, next_serial>>
    /\ UNCHANGED non_cert_vars

\* certs.rs:35
CertLock(c) ==
    /\ gc[c].pc = "lock"
    /\ LockFree(cert_lock)
    /\ cert_lock' = c
    /\ gc' = [gc EXCEPT ![c].pc = "lookup"]
    /\ UNCHANGED <<cert_cache, cert_signs, next_serial, cert_calls>>
    /\ UNCHANGED non_cert_vars

\* certs.rs:36-38: a hit returns the cached configuration; the guard drops
CertLookup(c) ==
    /\ gc[c].pc = "lookup"
    /\ IF cert_cache[gc[c].host] # <<>>
       THEN /\ gc' = [gc EXCEPT ![c].pc = "returned",
                                ![c].config = cert_cache[gc[c].host]]
            /\ cert_lock' = NULL
       ELSE /\ gc' = [gc EXCEPT ![c].pc = "sign"]
            /\ cert_lock' = cert_lock
    /\ UNCHANGED <<cert_cache, cert_signs, next_serial, cert_calls>>
    /\ UNCHANGED non_cert_vars

\* certs.rs:40-57: a leaf for the host is generated and signed by the root
CertSign(c) ==
    /\ gc[c].pc = "sign"
    /\ gc' = [gc EXCEPT ![c].pc = "insert", ![c].leaf = <<next_serial>>]
    /\ cert_signs' = [cert_signs EXCEPT ![gc[c].host] = @ + 1]
    /\ next_serial' = next_serial + 1
    /\ UNCHANGED <<cert_lock, cert_cache, cert_calls>>
    /\ UNCHANGED non_cert_vars

\* certs.rs:59-61: the leaf is cached and returned; the guard drops
CertInsert(c) ==
    /\ gc[c].pc = "insert"
    /\ cert_cache' = [cert_cache EXCEPT ![gc[c].host] = gc[c].leaf]
    /\ gc' = [gc EXCEPT ![c].pc = "returned", ![c].config = gc[c].leaf]
    /\ cert_lock' = NULL
    /\ UNCHANGED <<cert_signs, next_serial, cert_calls>>
    /\ UNCHANGED non_cert_vars

\* The caller takes the configuration (proxy.rs:278-279).
CertReturn(c) ==
    /\ gc[c].pc = "returned"
    /\ gc' = [gc EXCEPT ![c] = IdleCaller]
    /\ UNCHANGED <<cert_lock, cert_cache, cert_signs, next_serial, cert_calls>>
    /\ UNCHANGED non_cert_vars

\* ------------------------------------- handle_mitm (proxy.rs, certs.rs)
\* proxy.rs:280-296: the TLS handshake with the client succeeds and the
\* tunnel serves requests, or fails and the task ends
TlsAccept(c) ==
    /\ gc[c].pc = "returned"
    /\ \E ok \in BOOLEAN :
         gc' = [gc EXCEPT ![c] = IF ok THEN [@ EXCEPT !.pc = "tunnel"]
                                  ELSE IdleCaller]
    /\ UNCHANGED <<cert_lock, cert_cache, cert_signs, next_serial, cert_calls>>
    /\ UNCHANGED non_cert_vars

\* proxy.rs:286-291: the client closes the tunnel
TunnelClose(c) ==
    /\ gc[c].pc = "tunnel"
    /\ gc' = [gc EXCEPT ![c] = IdleCaller]
    /\ UNCHANGED <<cert_lock, cert_cache, cert_signs, next_serial, cert_calls>>
    /\ UNCHANGED non_cert_vars

\* The requests sent inside a tunnel: origin-form, with the Host header of
\* one host or the other.
MitmRequests ==
    {HttpRequest("GET", "/", {<<"host", h>>}, "") : h \in Hosts}

\* HeaderMap::get (proxy.rs:59): the value of a header, NULL without one
HeaderOf(headers, name) ==
    IF \E p \in headers : p[1] = name
    THEN (CHOOSE p \in headers : p[1] = name)[2]
    ELSE NULL

\* An origin-form URI has no scheme (proxy.rs:58).
SchemeIsNone(url) == url = "/"

\* Uri::from_parts with scheme https (proxy.rs:60-63), written out
HttpsUrl(authority, path) ==
    CASE authority = "example.test" /\ path = "/" -> "https://example.test/"
      [] authority = "api.test" /\ path = "/" -> "https://api.test/"
      [] OTHER -> path

\* proxy.rs:57-65: the absolute form of a request served in a tunnel
AbsoluteForm(req, is_mitm, host) ==
    IF is_mitm /\ SchemeIsNone(req.url) /\ HeaderOf(req.headers, "host") # NULL
    THEN [req EXCEPT !.url = HttpsUrl(HeaderOf(req.headers, "host"), req.url)]
    ELSE req

\* A tunnel passes a request to handle_request (proxy.rs:283-285, 47-65).
MitmAccept(f) ==
    /\ flow[f].pc = "idle"
    /\ f = "flow2" => flow["flow1"].pc # "idle"
    /\ \E c \in CertCallers, req \in MitmRequests :
         /\ gc[c].pc = "tunnel"
         /\ flow' = [flow EXCEPT ![f] = [IdleFlow EXCEPT
                        !.pc = "read_flags", !.tunnel = gc[c].host,
                        !.received = req,
                        !.req = AbsoluteForm(req, TRUE, gc[c].host)]]
    /\ UNCHANGED <<config_vars, pending_vars, life_vars, resolve_vars>>
    /\ UNCHANGED non_proxy_vars

\* ------------------------------------------------ path_matches (drift.rs)
\* Templates and paths are sequences of one-character strings.
MaxSegments == 3

\* str::split('/') (drift.rs:92): the pieces between the slashes, of which
\* there is always one at least
RECURSIVE SplitSlash(_)
SplitSlash(str) ==
    IF \A i \in 1..Len(str) : str[i] # "/"
    THEN <<str>>
    ELSE LET k == Min({i \in 1..Len(str) : str[i] = "/"})
         IN <<SubSeq(str, 1, k - 1)>> \o SplitSlash(SubSeq(str, k + 1, Len(str)))

\* drift.rs:97: part.starts_with('{') && part.ends_with('}')
IsParam(part) == part # <<>> /\ part[1] = "{" /\ part[Len(part)] = "}"

\* One element of the pattern built: a literal character (regex::escape
\* makes every character of a literal part stand for itself) or the class
\* [^/]+.
Lit(c) == [kind |-> "lit", c |-> c]
NotSlashPlus == [kind |-> "[^/]+"]

RECURSIVE Lits(_)
Lits(part) == IF part = <<>> THEN <<>> ELSE <<Lit(Head(part))>> \o Lits(Tail(part))

\* drift.rs:91-103: the pattern between ^ and $
RECURSIVE RegexParts(_, _)
RegexParts(parts, i) ==
    IF i > Len(parts) THEN <<>>
    ELSE (IF i > 1 THEN <<Lit("/")>> ELSE <<>>)
         \o (IF IsParam(parts[i]) THEN <<NotSlashPlus>> ELSE Lits(parts[i]))
         \o RegexParts(parts, i + 1)

RegexOf(tmpl) == RegexParts(SplitSlash(tmpl), 1)

\* A class that also matches no character at all: [^/]*.
RunsFromNone(text) ==
    {k \in 0..Len(text) : \A j \in 1..k : text[j] # "/"}

\* The lengths of the prefixes of text that [^/]+ matches.
Runs(text) ==
    {k \in 1..Len(text) : \A j \in 1..k : text[j] # "/"}

\* Regex::is_match of ^re$ (drift.rs:105-106): re matches the whole text
RECURSIVE IsMatch(_, _)
IsMatch(re, text) ==
    IF re = <<>> THEN text = <<>>
    ELSE IF Head(re).kind = "lit"
         THEN /\ text # <<>>
              /\ Head(text) = Head(re).c
              /\ IsMatch(Tail(re), Tail(text))
         ELSE \E k \in Runs(text) :
                 IsMatch(Tail(re), SubSeq(text, k + 1, Len(text)))

\* drift.rs:89-110.  The pattern built always compiles, so the comparison
\* of line 108 is never made.
path_matches(tmpl, path) == IsMatch(RegexOf(tmpl), path)

\* The segments templates and paths are made of, and the strings of up to
\* MaxSegments segments.
TemplateSegments ==
    {<<>>, <<"u">>, <<"{", "i", "}">>, <<"{", "}">>, <<"{">>}
PathSegments == {<<>>, <<"u">>, <<"1", "2">>, <<"{", "}">>}

RECURSIVE JoinSlash(_)
JoinSlash(segs) ==
    IF Len(segs) = 1 THEN segs[1]
    ELSE segs[1] \o <<"/">> \o JoinSlash(Tail(segs))

StringsOf(segments) ==
    {JoinSlash(segs) :
        segs \in UNION {[1..n -> segments] : n \in 1..MaxSegments}}

ApplyPathMatches ==
    /\ args.fn = "path_matches"
    /\ ret = <<>>
    /\ ret' = <<path_matches(args.tmpl, args.path)>>
    /\ UNCHANGED <<args, store_vars, cert_vars, proxy_vars>>

\* --------------------------------------- compare_schema_to_body (drift.rs)
\* A response body: whether it is empty, whether it starts with "{", and
\* what serde_json::from_str makes of it: <<>> (Err) or <<the value>>.
BodyText(is_empty, starts_brace, parsed) ==
    [is_empty |-> is_empty, starts_brace |-> starts_brace, parsed |-> parsed]
JsonObject(keys) == [object |-> TRUE, keys |-> keys]
JsonArray == [object |-> FALSE, keys |-> {}]

FieldNames == {"a", "b", "c"}

ObjectBodies == {BodyText(FALSE, TRUE, <<JsonObject(k)>>) : k \in SUBSET FieldNames}
\* "", "hello", "{oops", "[1]" and " {}"
OtherBodies ==
    {BodyText(TRUE, FALSE, <<>>), BodyText(FALSE, FALSE, <<>>),
     BodyText(FALSE, TRUE, <<>>), BodyText(FALSE, FALSE, <<JsonArray>>),
     BodyText(FALSE, FALSE, <<JsonObject({})>>)}

\* A schema: properties is <<>> when the schema has no object under
\* "properties", required is <<>> when it has no array under "required".
Schema(properties, required) ==
    [properties |-> properties, required |-> required]
RequiredLists ==
    {<<>>, <<"a">>, <<"a", "b">>, <<"b", "a">>, <<"c">>, <<"b", "c">>}
Schemas ==
    {Schema(p, r) :
        p \in {<<>>} \cup {<<k>> : k \in SUBSET {"a", "b"}},
        r \in {<<>>} \cup {<<l>> : l \in RequiredLists}}

Finding(rule_id, severity, match_content, about) ==
    [rule_id |-> rule_id, severity |-> severity,
     match_content |-> match_content, about |-> about]

\* The order in which the keys of the body are visited (serde_json's Map
\* iterates in key order).
KeyOrder == <<"a", "b", "c">>

\* drift.rs:121-136: one finding per body key that properties lacks
RECURSIVE ExtraFields(_, _, _)
ExtraFields(props, body_obj, i) ==
    IF i > Len(KeyOrder) THEN <<>>
    ELSE (IF KeyOrder[i] \in body_obj /\ KeyOrder[i] \notin props
          THEN <<Finding("DRIFT-EXTRA-FIELD", "Low", KeyOrder[i], <<KeyOrder[i]>>)>>
          ELSE <<>>)
         \o ExtraFields(props, body_obj, i + 1)

\* drift.rs:139-157: one finding per required name the body lacks
RECURSIVE MissingFields(_, _)
MissingFields(required, body_obj) ==
    IF required = <<>> THEN <<>>
    ELSE (IF Head(required) \notin body_obj
          THEN <<Finding("DRIFT-MISSING-FIELD", "Medium", Head(required),
                         <<Head(required)>>)>>
          ELSE <<>>)
         \o MissingFields(Tail(required), body_obj)

\* drift.rs:112-161
compare_schema_to_body(schema, body) ==
    IF body.parsed = <<>> THEN <<>>
    ELSE IF schema.properties = <<>> THEN <<>>
    ELSE IF ~body.parsed[1].object THEN <<>>
    ELSE ExtraFields(schema.properties[1], body.parsed[1].keys, 1)
         \o (IF schema.required = <<>> THEN <<>>
             ELSE MissingFields(schema.required[1], body.parsed[1].keys))

ApplyCompareSchema ==
    /\ args.fn = "compare_schema_to_body"
    /\ ret = <<>>
    /\ ret' = <<compare_schema_to_body(args.schema, args.body)>>
    /\ UNCHANGED <<args, store_vars, cert_vars, proxy_vars>>

\* --------------------------------------------------- detect_drift (drift.rs)
\* Url::parse and Url::path (drift.rs:15-20): <<the path>>, or <<>> (Err) of
\* a string that is no absolute URL
UrlPath(url_str) ==
    CASE url_str = "http://h/u/12" -> << <<"/", "u", "/", "1", "2">> >>
      [] url_str = "http://h/u/me" -> << <<"/", "u", "/", "m", "e">> >>
      [] url_str = "http://h/w"    -> << <<"/", "w">> >>
      [] url_str = "http://h/x"    -> << <<"/", "x">> >>
      [] url_str = "http://h/y"    -> << <<"/", "y">> >>
      [] OTHER                     -> <<>>

DriftUrls == {"http://h/u/12", "http://h/u/me", "http://h/w", "u/12"}

\* str::to_lowercase (drift.rs:37)
ToLowercase(method) ==
    CASE method = "GET"  -> "get"
      [] method = "Post" -> "post"
      [] OTHER           -> method

DriftMethods == {"GET", "Post", "delete"}

\* An operation: schema is <<>> unless the operation has
\* responses.200.content.application/json.schema (drift.rs:45-50).
Operation(schema) == [schema |-> schema]

\* The objects found under a template: method keys and their operations.
PathItems ==
    {{}, {<<"get", Operation(<<>>)>>},
     {<<"get", Operation(<<Schema(<<{"a"}>>, <<<<"a", "b">>>>)>>)>>,
      <<"post", Operation(<<Schema(<<>>, <<<<"a">>>>)>>)>>}}

USERS_ID == <<"/", "u", "/", "{", "i", "}">>
USERS_ME == <<"/", "u", "/", "m", "e">>
OTHER_PATH == <<"/", "v">>
Templates == {USERS_ID, USERS_ME, OTHER_PATH}

\* The text of a stored spec: not JSON, JSON without a "paths" object, or
\* JSON whose "paths" object holds up to two templates, in the order the
\* object is iterated in.
NotJson == [json |-> FALSE, paths |-> <<>>]
NoPaths == [json |-> TRUE, paths |-> <<>>]
WithPaths(paths) == [json |-> TRUE, paths |-> <<paths>>]
Contents ==
    {NotJson, NoPaths}
    \cup {WithPaths(<<<<t, m>>>>) : t \in Templates, m \in PathItems}
    \cup {WithPaths(<<<<tt[1], m1>>, <<tt[2], m2>>>>) :
             tt \in {<<USERS_ID, USERS_ME>>, <<USERS_ME, USERS_ID>>},
             m1 \in PathItems, m2 \in PathItems}

ApiSpec(name, content) == [name |-> name, content |-> content]

\* The stored specs: none, one, or two.
SpecLists ==
    {<<>>}
    \cup {<<ApiSpec("s1", c)>> : c \in Contents}
    \cup {<<ApiSpec("s1", c1), ApiSpec("s2", c2)>> :
             c1 \in Contents, c2 \in Contents}

\* Option<&str>: <<>> is None
DriftBodies ==
    {<<>>, <<BodyText(FALSE, TRUE, <<JsonObject({})>>)>>,
     <<BodyText(FALSE, TRUE, <<JsonObject({"a", "c"})>>)>>}

\* The position of the first template of paths that matches, 0 if none
\* does (drift.rs:34-35, 74).
FirstMatch(paths, path) ==
    LET hits == {i \in 1..Len(paths) : path_matches(paths[i][1], path)}
    IN IF hits = {} THEN 0 ELSE Min(hits)

\* A lookup that compares the method as it was sent.
MethodsGetAsSent(methods, method) ==
    {kv[2] : kv \in {e \in methods : e[1] = method}}

\* drift.rs:37-39: methods.get(&method.to_lowercase())
MethodsGet(methods, method) ==
    {kv[2] : kv \in {e \in methods : e[1] = ToLowercase(method)}}

\* drift.rs:22-75: the findings one spec gives
SpecFindings(path, method, res_body, spec) ==
    IF ~spec.content.json \/ spec.content.paths = <<>> THEN <<>>
    ELSE LET paths == spec.content.paths[1]
             i == FirstMatch(paths, path)
         IN IF i = 0 THEN <<>>
            ELSE LET tmpl == paths[i][1]
                     ops == MethodsGet(paths[i][2], method)
                 IN IF ops = {}
                    THEN <<Finding("DRIFT-UNDOCUMENTED-METHOD", "Medium",
                                   method, <<tmpl, spec.name, method>>)>>
                    ELSE LET op == CHOOSE o \in ops : TRUE
                         IN IF /\ res_body # <<>>
                               /\ ~res_body[1].is_empty
                               /\ res_body[1].starts_brace
                               /\ op.schema # <<>>
                            THEN compare_schema_to_body(op.schema[1],
                                                        res_body[1])
                            ELSE <<>>

RECURSIVE AllSpecFindings(_, _, _, _)
AllSpecFindings(path, method, res_body, specs) ==
    IF specs = <<>> THEN <<>>
    ELSE SpecFindings(path, method, res_body, Head(specs))
         \o AllSpecFindings(path, method, res_body, Tail(specs))

\* drift.rs:5-87
detect_drift(url_str, method, res_body, specs) ==
    IF UrlPath(url_str) = <<>> THEN <<>>
    ELSE AllSpecFindings(UrlPath(url_str)[1], method, res_body, specs)

ApplyDetectDrift ==
    /\ args.fn = "detect_drift"
    /\ ret = <<>>
    /\ ret' = <<detect_drift(args.url_str, args.method, args.res_body,
                             args.specs)>>
    /\ UNCHANGED <<args, store_vars, cert_vars, proxy_vars>>

\* ------------------------------------ add_asset with stored specs (assets.rs)
\* A stored spec that documents POST /x and nothing else.
PostOnlySpec(name) ==
    ApiSpec(name, WithPaths(<< <<<<"/", "x">>, {<<"post", Operation(<<>>)>>}>> >>))

\* What get_api_specs (assets.rs:39) returns while specs are stored.
StoredSpecLists == {<<PostOnlySpec("s1")>>, <<PostOnlySpec("s1"), PostOnlySpec("s2")>>}

\* asset.res_body.as_deref() (assets.rs:44): the bodies of the store's
\* requests are short texts that are no JSON
AsBodyText(res_body) ==
    IF res_body = NULL THEN <<>> ELSE <<BodyText(FALSE, FALSE, <<>>)>>

\* assets.rs:40-47: the findings drift detection adds, as the rule ids the
\* finding rows carry; none while no spec is stored
DriftFindings(req, specs) ==
    IF specs = <<>> THEN <<>>
    ELSE LET d == detect_drift(req.url, IF req.method = NULL THEN "GET" ELSE req.method,
                               AsBodyText(req.res_body), specs)
         IN [i \in 1..Len(d) |-> d[i].rule_id]

\* add_asset is called while specs are stored (assets.rs:35-48)
AddAssetCallWithSpecs(t) ==
    /\ CanCall(t)
    /\ \E req \in StoreRequests, specs \in StoredSpecLists :
         tk' = [tk EXCEPT ![t] = [IdleTask EXCEPT !.pc = "select_id",
                    !.op = "add_asset", !.req = req, !.specs = specs,
                    !.todo = req.findings \o DriftFindings(req, specs)]]
    /\ calls' = calls + 1
    /\ UNCHANGED non_store_vars
    /\ UNCHANGED <<assets, next_asset_id, asset_history, findings,
                   foreign_keys, clock>>

\* ------------------------------------- Scanner (analysis.rs, plugins.rs)
\* The texts scanned: nothing of interest, an e-mail address among letters
\* and digits, 24 letters of which one occurs twice, and 20 times one letter.
KeyText == "abcdefghijklmnopqrstuvwa"
RunOfA == "aaaaaaaaaaaaaaaaaaaa"
ScanContents == {"hello", "aa 12 a@b.co", KeyText, RunOfA}

\* Regex::new (analysis.rs:834, plugins.rs:74): <<the pattern compiled>>, or
\* <<>> (Err) of a pattern that does not parse
RegexNew(regex) == IF regex \in {"a+", "[0-9]+"} THEN <<regex>> ELSE <<>>

\* Regex::find_iter (analysis.rs:835, plugins.rs:75): the matches, left to
\* right
FindIter(re, content) ==
    CASE re = "a+" /\ content = "aa 12 a@b.co"     -> <<"aa", "a">>
      [] re = "a+" /\ content = KeyText            -> <<"a", "a">>
      [] re = "a+" /\ content = RunOfA             -> <<RunOfA>>
      [] re = "[0-9]+" /\ content = "aa 12 a@b.co" -> <<"12">>
      [] OTHER                                     -> <<>>

\* FindingSeverity::from_str (analysis.rs:14-21) and the match of
\* plugins.rs:76-81, on the lower-cased string
SeverityFromStr(severity) ==
    CASE severity \in {"HIGH", "high", "critical"} -> "High"
      [] severity \in {"Medium", "medium"}         -> "Medium"
      [] severity \in {"Low", "low"}               -> "Low"
      [] OTHER                                     -> "Info"

CustomRule(rule_id, regex, severity) ==
    [rule_id |-> rule_id, name |-> rule_id, description |-> "custom",
     regex |-> regex, severity |-> severity]

CustomRules ==
    {CustomRule("CUST-1", "a+", "HIGH"), CustomRule("CUST-2", "(", "low"),
     CustomRule("CUST-3", "[0-9]+", "urgent")}

\* The sequences without repetition of the elements of set S.
RECURSIVE ListsOf(_)
ListsOf(S) ==
    {<<>>} \cup UNION {{<<x>> \o l : l \in ListsOf(S \ {x})} : x \in S}

\* analysis.rs:835-847: the findings of one rule whose pattern compiled
CustomRuleFindings(rule, content) ==
    [i \in 1..Len(FindIter(rule.regex, content)) |->
        Finding(rule.rule_id, SeverityFromStr(rule.severity),
                FindIter(rule.regex, content)[i],
                <<rule.name, <<rule.description>>, <<>> >>)]

\* A scan that gives up at the first pattern that does not compile.
RECURSIVE scan_custom_until_error(_, _)
scan_custom_until_error(content, rules) ==
    IF rules = <<>> \/ RegexNew(Head(rules).regex) = <<>> THEN <<>>
    ELSE CustomRuleFindings(Head(rules), content)
         \o scan_custom_until_error(content, Tail(rules))

\* analysis.rs:831-851
RECURSIVE scan_custom(_, _)
scan_custom(content, rules) ==
    IF rules = <<>> THEN <<>>
    ELSE (IF RegexNew(Head(rules).regex) # <<>>
          THEN CustomRuleFindings(Head(rules), content) ELSE <<>>)
         \o scan_custom(content, Tail(rules))

\* RulePlugin and PluginPack (plugins.rs:7-22); description is <<>> for None
RulePlugin(id, regex, severity, description) ==
    [id |-> id, name |-> id, severity |-> severity, regex |-> regex,
     description |-> description]
PluginPack(name, rules) == [name |-> name, version |-> "1.0.0", rules |-> rules]

PluginPacks ==
    {PluginPack("cloud", <<RulePlugin("PLG-1", "[0-9]+", "critical", <<>>),
                           RulePlugin("PLG-2", "[a-", "high", <<"broken">>)>>),
     PluginPack("letters", <<RulePlugin("PLG-3", "a+", "Medium", <<"runs">>)>>)}

\* plugins.rs:75-97: the findings of one rule whose pattern compiled
PluginRuleFindings(pack, rule, content) ==
    [i \in 1..Len(FindIter(rule.regex, content)) |->
        Finding(rule.id, SeverityFromStr(rule.severity),
                FindIter(rule.regex, content)[i],
                <<rule.name,
                  IF rule.description = <<>> THEN <<rule.name>>
                  ELSE rule.description,
                  <<pack.name, pack.version>> >>)]

\* plugins.rs:73-99: the rules of one pack
RECURSIVE ScanPack(_, _, _)
ScanPack(content, pack, rules) ==
    IF rules = <<>> THEN <<>>
    ELSE (IF RegexNew(Head(rules).regex) # <<>>
          THEN PluginRuleFindings(pack, Head(rules), content) ELSE <<>>)
         \o ScanPack(content, pack, Tail(rules))

\* plugins.rs:69-103
RECURSIVE scan_with_plugins(_, _)
scan_with_plugins(content, plugins) ==
    IF plugins = <<>> THEN <<>>
    ELSE ScanPack(content, Head(plugins), Head(plugins).rules)
         \o scan_with_plugins(content, Tail(plugins))

\* analysis.rs:870-872: the matches of [a-zA-Z0-9/+=]{20,64}
Candidates(content) ==
    IF content \in {KeyText, RunOfA} THEN <<content>> ELSE <<>>

\* str::len (analysis.rs:858)
StrLen(str) == IF str = KeyText THEN 24 ELSE 20

\* HashMap::values (analysis.rs:854-860): the counts of the characters of
\* str, in the orders the map can be iterated in.  The order is the map's
\* own, and not the same from one map to the next.
ValueOrders(str) ==
    IF str = KeyText
    THEN {[i \in 1..23 |-> IF i = p THEN 2 ELSE 1] : p \in 1..23}
    ELSE {<<20>>}

\* analysis.rs:861-862: -p * log2(p) for p = count / len, in thousandths
\* of a bit
TermMilli(count, len) ==
    CASE count = 1 /\ len = 24  -> 191
      [] count = 2 /\ len = 24  -> 299
      [] OTHER                  -> 0

\* An iteration that yields the first value of the map twice.
VisitedFirstTwice(values) == <<Head(values)>> \o values

\* The values an iteration visits.
Visited(values) == values

\* analysis.rs:853-865, the terms added in the order the map yields them
RECURSIVE SumTerms(_, _)
SumTerms(values, len) ==
    IF values = <<>> THEN 0
    ELSE TermMilli(Head(values), len) + SumTerms(Tail(values), len)

calculate_entropy(str, values) == SumTerms(Visited(values), StrLen(str))

\* analysis.rs:883: 4.5 bits, in thousandths
EntropyThreshold == 4500

\* {:.2} (analysis.rs:887, 890): hundredths of a bit
TwoDecimals(milli) == (milli + 5) \div 10

\* analysis.rs:867-898; values is what the map of the candidate yields
scan_entropy(content, values) ==
    IF Candidates(content) = <<>> THEN <<>>
    ELSE LET str == Candidates(content)[1]
             entropy == calculate_entropy(str, values)
         IN IF entropy > EntropyThreshold
            THEN <<Finding("CONF-HIGH-ENTROPY", "Medium", str,
                           <<"High Entropy String Detected",
                             <<"bits of entropy">>,
                             <<"Entropy", <<TwoDecimals(entropy)>> >> >>)>>
            ELSE <<>>

\* analysis.rs:57-72, 74: the scanners that run a fixed pattern over the
\* text; of the texts scanned they match the e-mail address only
PatternScanners(content) ==
    IF content = "aa 12 a@b.co"
    THEN <<Finding("PII-EMAIL", "Low", "a@b.co",
                   <<"Email address", <<"Exposed email address">>, <<>> >>)>>
    ELSE <<>>

\* analysis.rs:51-78
scan_text(content, custom_rules, plugins, values) ==
    PatternScanners(content)
    \o scan_entropy(content, values)
    \o scan_with_plugins(content, plugins)
    \o scan_custom(content, custom_rules)

\* How often one scan is evaluated.
Evaluations == 2

ApplyScanCustom ==
    /\ args.fn = "scan_custom"
    /\ ret = <<>>
    /\ ret' = <<scan_custom(args.content, args.rules)>>
    /\ UNCHANGED <<args, store_vars, cert_vars, proxy_vars>>

ApplyScanWithPlugins ==
    /\ args.fn = "scan_with_plugins"
    /\ ret = <<>>
    /\ ret' = <<scan_with_plugins(args.content, args.plugins)>>
    /\ UNCHANGED <<args, store_vars, cert_vars, proxy_vars>>

\* Scanner::scan_text called once more on the same arguments
ApplyScanText ==
    /\ args.fn = "scan_text"
    /\ Len(ret) < Evaluations
    /\ \E values \in IF Candidates(args.content) = <<>> THEN {<<>>}
                     ELSE ValueOrders(Candidates(args.content)[1]) :
          ret' = Append(ret, scan_text(args.content, args.custom_rules,
                                       args.plugins, values))
    /\ UNCHANGED <<args, store_vars, cert_vars, proxy_vars>>

\* ------------------------------------------- Scanner::scan_pii (analysis.rs)
\* A text is the sequence of its characters.  The character classes of
\* (?i)[a-z0-9._%+-]+@[a-z0-9.-]+\.[a-z]{2,} (analysis.rs:456), over the
\* characters the texts are made of:
Letters == {"a", "b", "c", "d", "g", "o", "r", "t", "B", "O"}
Digits == {"1", "2"}
LocalChars == Letters \cup Digits \cup {".", "_", "%", "+", "-"}
DomainChars == Letters \cup Digits \cup {".", "-"}

\* The last position of the longest run of characters of class that starts
\* at position i of text; i - 1 when there is none.
RECURSIVE RunEnd(_, _, _)
RunEnd(text, i, class) ==
    IF i > Len(text) \/ text[i] \notin class THEN i - 1
    ELSE RunEnd(text, i + 1, class)

Max(S) == CHOOSE x \in S : \A y \in S : y <= x

\* The end of the match of the e-mail pattern that starts at position s, 0
\* when none starts there: the local part runs up to the "@", the domain
\* part is as long as a dot and two letters after it allow, the letters
\* after that dot are all taken.
EmailMatchEnd(text, s) ==
    LET l == RunEnd(text, s, LocalChars)
    IN IF l < s \/ l + 1 > Len(text) THEN 0
       ELSE IF text[l + 1] # "@" THEN 0
       ELSE LET d == RunEnd(text, l + 2, DomainChars)
                dots == {p \in (l + 3)..d :
                            /\ text[p] = "."
                            /\ RunEnd(text, p + 1, Letters) >= p + 2}
            IN IF dots = {} THEN 0
               ELSE RunEnd(text, Max(dots) + 1, Letters)

\* The first position from from on at which a match starts, 0 when none.
RECURSIVE EmailMatchStart(_, _)
EmailMatchStart(text, from) ==
    IF from > Len(text) THEN 0
    ELSE IF EmailMatchEnd(text, from) # 0 THEN from
    ELSE EmailMatchStart(text, from + 1)

\* A search that stops at the first match (Regex::find).
EmailFindFirst(text, from) ==
    LET s == EmailMatchStart(text, from)
    IN IF s = 0 THEN <<>> ELSE <<SubSeq(text, s, EmailMatchEnd(text, s))>>

\* Regex::find_iter (analysis.rs:457): the matches from position from on,
\* left to right, each search starting where the last match ended
RECURSIVE EmailFindIter(_, _)
EmailFindIter(text, from) ==
    LET s == EmailMatchStart(text, from)
    IN IF s = 0 THEN <<>>
       ELSE <<SubSeq(text, s, EmailMatchEnd(text, s))>>
            \o EmailFindIter(text, EmailMatchEnd(text, s) + 1)

\* analysis.rs:452-469: one finding per match of the e-mail pattern.  The
\* phone and SSN patterns that follow (analysis.rs:472-500) need nine
\* digits or more, which no text here has.
scan_pii(content) ==
    [i \in 1..Len(EmailFindIter(content, 1)) |->
        Finding("PII-EMAIL", "Low", EmailFindIter(content, 1)[i],
                <<"Email address", <<"Exposed email address">>, <<>> >>)]

\* The addresses, and what stands between two of them in a text.
Addresses ==
    {<<"a", "@", "b", ".", "c", "o">>,
     <<"B", "o", ".", "b", "+", "1", "@", "a", "-", "b", ".", "c", ".", "O", "r", "g">>,
     <<"d", "_", "2", "@", "t", ".", "d", "1", ".", "a", "b">>}
Separators == {<<" ">>, <<".", " ", "o", "r", " ">>, <<",">>}
MaxAddresses == 3

\* The texts with the addresses of list in that order.
RECURSIVE TextsOf(_)
TextsOf(list) ==
    IF list = <<>> THEN {<<"t", "o", " ">>}
    ELSE IF Len(list) = 1 THEN {<<"t", "o", " ">> \o list[1], list[1] \o <<".">>}
    ELSE {Head(list) \o sep \o rest : sep \in Separators, rest \in TextsOf(Tail(list))}

AddressLists == UNION {[1..n -> Addresses] : n \in 0..MaxAddresses}

ApplyScanPii ==
    /\ args.fn = "scan_pii"
    /\ ret = <<>>
    /\ ret' = <<scan_pii(args.content)>>
    /\ UNCHANGED <<args, store_vars, cert_vars, proxy_vars>>

\* ------------------------------------------------- load_plugins (plugins.rs)
\* plugins.rs:37-48: the sample pack
SamplePack ==
    [name |-> "Cloud Infra Discovery", author |-> <<"APISec Team">>,
     version |-> "1.0.0",
     rules |-> <<[id |-> "PLG-S3-BUCKET", name |-> "S3 Bucket Detected",
                  severity |-> "Info",
                  regex |-> "(?i)[a-z0-9.-]+\\.s3\\.amazonaws\\.com",
                  description |-> <<"Discovered a reference to an AWS S3 bucket.">>]>>]

\* Another pack a user has put in the directory.
UserPack ==
    [name |-> "Tokens", author |-> <<>>, version |-> "0.1.0",
     rules |-> <<[id |-> "PLG-TOKEN", name |-> "Token", severity |-> "High",
                  regex |-> "tok_[a-z]+", description |-> <<>>]>>]

\* serde_yml::to_string (plugins.rs:49): the text of a pack
ToYaml(pack) == [yaml |-> TRUE, doc |-> <<pack>>]

\* A file's text that is no pack.
GarbageText == [yaml |-> FALSE, doc |-> <<>>]

\* serde_yml::from_str::<PluginPack> (plugins.rs:58): <<the pack>>, or <<>> (Err)
FromYaml(content) == IF content.yaml THEN content.doc ELSE <<>>

FileNames == <<"cloud_infra.yaml", "extra.yaml", "notes.txt">>

\* Path::extension (plugins.rs:56)
Extension(name) ==
    CASE name = "cloud_infra.yaml" -> <<"yaml">>
      [] name = "extra.yaml" -> <<"yaml">>
      [] name = "notes.txt" -> <<"txt">>

\* A directory is <<>> (missing) or <<files>>, files[i] being <<>> (no such
\* file) or <<the text of FileNames[i]>>.
FileTexts == {<<>>, <<ToYaml(SamplePack)>>, <<ToYaml(UserPack)>>, <<GarbageText>>}
EmptyDir == [i \in 1..Len(FileNames) |-> <<>>]
PluginDirs == {<<>>} \cup {<<files>> : files \in [1..Len(FileNames) -> FileTexts]}

\* fs::create_dir_all (plugins.rs:35), its error dropped
CreateDirAll(dir, ok) == IF dir = <<>> /\ ok THEN <<EmptyDir>> ELSE dir

\* fs::write (plugins.rs:50), its error dropped
FsWrite(dir, i, text, ok) ==
    IF dir # <<>> /\ ok THEN <<[dir[1] EXCEPT ![i] = <<text>>]>> ELSE dir

\* plugins.rs:34-51
SeededDir(dir, mkdir_ok, write_ok) ==
    IF dir = <<>>
    THEN FsWrite(CreateDirAll(dir, mkdir_ok), 1, ToYaml(SamplePack), write_ok)
    ELSE dir

\* plugins.rs:54-63: what one directory entry adds to packs
PacksOfEntry(files, i) ==
    IF files[i] # <<>> /\ Extension(FileNames[i]) = <<"yaml">>
    THEN FromYaml(files[i][1])
    ELSE <<>>

\* The orders in which fs::read_dir (plugins.rs:53) can list the entries.
EntryOrders ==
    {o \in [1..Len(FileNames) -> 1..Len(FileNames)] :
        \A i, j \in 1..Len(FileNames) : i # j => o[i] # o[j]}

RECURSIVE PacksInOrder(_, _, _)
PacksInOrder(files, order, k) ==
    IF k > Len(order) THEN <<>>
    ELSE PacksOfEntry(files, order[k]) \o PacksInOrder(files, order, k + 1)

\* plugins.rs:24-67: the packs returned and the directory left behind
load_plugins(dir, mkdir_ok, write_ok, order) ==
    LET after == SeededDir(dir, mkdir_ok, write_ok)
    IN [packs |-> IF after = <<>> THEN <<>>
                  ELSE PacksInOrder(after[1], order, 1),
        dir |-> after]

ApplyLoadPlugins ==
    /\ args.fn = "load_plugins"
    /\ ret = <<>>
    /\ \E order \in EntryOrders :
          ret' = <<load_plugins(args.dir, args.mkdir_ok, args.write_ok, order)>>
    /\ UNCHANGED <<args, store_vars, cert_vars, proxy_vars>>

\* ------------------------------------------------------- specifications
\* The workspace database the process opens (db.rs:23-34) is a file kept
\* across runs: it is new, or holds an asset an earlier run stored.
InitialInventories ==
    {{},
     {[id |-> 1, url |-> "http://h/x", method |-> "GET", source |-> "Import",
       status_code |-> "200", req_body |-> NULL, res_body |-> "a",
       last_seen |-> 0]}}

\* db.rs:37-49, 51-67, 177-188 (empty tables) and db.rs:31-34 (the pool:
\* FOREIGN KEY enforcement is the connection's setting).
InitStore ==
    /\ assets \in InitialInventories
    /\ next_asset_id = Cardinality(assets) + 1
    /\ asset_history = <<>>
    /\ findings = <<>>
    /\ foreign_keys \in BOOLEAN
    /\ clock = 0
    /\ tk = [t \in Tasks |-> IdleTask]
    /\ calls = 0

\* No function of the analysis is under evaluation.
NoArgs == [fn |-> "none"]
InitEval == args = NoArgs /\ ret = <<>>

\* certs.rs:28-31: an empty cache behind an unlocked mutex
InitCerts ==
    /\ cert_lock = NULL
    /\ cert_cache = [h \in Hosts |-> <<>>]
    /\ cert_signs = [h \in Hosts |-> 0]
    /\ next_serial = 1
    /\ gc = [c \in CertCallers |-> IdleCaller]
    /\ cert_calls = 0

\* lib.rs:224-233: the flags cleared, the tables empty; no server task
InitProxy ==
    /\ running = FALSE
    /\ capture_body = FALSE
    /\ intercept_requests = FALSE
    /\ intercept_responses = FALSE
    /\ pending_requests = {}
    /\ pending_responses = {}
    /\ chan = [i \in Ids |-> NoChan]
    /\ next_corr = 1
    /\ server = [s \in Servers |-> "none"]
    /\ next_server = 1
    /\ sc = [c \in Starters |-> IdleStarter]
    /\ flow = [f \in Flows |-> IdleFlow]
    /\ rc = [c \in Resolvers |-> IdleResolver]
    /\ resolves = 0
    /\ ok_resolves = [i \in Ids |-> 0]
    /\ config_sets = 0

Init == InitStore /\ InitCerts /\ InitProxy /\ InitEval

\* The process once start_proxy_server has returned Ok and the server task
\* has bound the port (lib.rs:104-112, proxy.rs:19-33).
InitServing ==
    /\ InitStore
    /\ foreign_keys
    /\ InitCerts
    /\ InitEval
    /\ running = TRUE
    /\ capture_body = FALSE
    /\ intercept_requests = FALSE
    /\ intercept_responses = FALSE
    /\ pending_requests = {}
    /\ pending_responses = {}
    /\ chan = [i \in Ids |-> NoChan]
    /\ next_corr = 1
    /\ server = [s \in Servers |-> IF s = 1 THEN "serving" ELSE "none"]
    /\ next_server = 2
    /\ sc = [c \in Starters |-> IdleStarter]
    /\ flow = [f \in Flows |-> IdleFlow]
    /\ rc = [c \in Resolvers |-> IdleResolver]
    /\ resolves = 0
    /\ ok_resolves = [i \in Ids |-> 0]
    /\ config_sets = 0

\* A statement of a running store command.
StoreStep(t) ==
    \/ SelectId(t)
    \/ SelectRes(t)
    \/ InsertHistory(t)
    \/ UpdateAsset(t)
    \/ UpdateLastSeen(t)
    \/ InsertAsset(t)
    \/ InsertFindings(t)
    \/ BatchSelect(t)
    \/ BatchUpdate(t)
    \/ BatchInsert(t)
    \/ DeleteFindings(t)
    \/ DeleteAssetRow(t)
    \/ ClearFindings(t)
    \/ ClearAssets(t)
    \/ TaskReturn(t)

\* A store command is invoked (lib.rs:271-285).
StoreCall(t) ==
    \/ AddAssetCall(t)
    \/ BatchImportFullCall(t)
    \/ BatchAddAssetsCall(t)
    \/ DeleteAssetCall(t)
    \/ ClearInventoryCall(t)

NextStore ==
    \/ \E t \in CmdTasks : StoreCall(t)
    \/ \E t \in Tasks : StoreStep(t)
    \/ Tick

\* The store under concurrent commands.
SpecStore == Init /\ [][NextStore]_vars

\* The store under concurrent commands on a connection that enforces the
\* FOREIGN KEY clauses of db.rs:63 and 184, which is what a pool opened
\* from a URL (db.rs:31-34) does unless the URL or a PRAGMA says otherwise.
InitEnforced == Init /\ foreign_keys
SpecStoreEnforced == InitEnforced /\ [][NextStore]_vars

AllIdle == \A t \in Tasks : tk[t].pc = "idle"

\* A statement of a running add_asset, or its return.
AddAssetStep(t) ==
    \/ SelectId(t)
    \/ SelectRes(t)
    \/ InsertHistory(t)
    \/ UpdateAsset(t)
    \/ UpdateLastSeen(t)
    \/ InsertAsset(t)
    \/ InsertFindings(t)
    \/ TaskReturn(t)

NextObserve ==
    \/ \E t \in CmdTasks : AllIdle /\ (AddAssetCall(t) \/ AddAssetCallWithSpecs(t))
    \/ \E t \in CmdTasks : AddAssetStep(t)
    \/ Tick

\* Observations recorded one after another, with and without stored specs.
SpecObserve == Init /\ [][NextObserve]_vars

NextStoreSeq ==
    \/ \E t \in CmdTasks : AllIdle /\ StoreCall(t)
    \/ \E t \in Tasks : StoreStep(t)
    \/ Tick

\* The store when each command returns before the next is invoked.
SpecStoreSeq == Init /\ [][NextStoreSeq]_vars

NextCerts ==
    \E c \in CertCallers :
       \/ GetServerConfigCall(c)
       \/ CertLock(c)
       \/ CertLookup(c)
       \/ CertSign(c)
       \/ CertInsert(c)
       \/ CertReturn(c)

\* The certificate cache under concurrent CONNECT tunnels.
SpecCerts == Init /\ [][NextCerts]_vars

NextLifecycle ==
    \/ \E c \in Starters : StartLoad(c) \/ StartStore(c) \/ StartReturn(c)
    \/ StopProxyServer
    \/ \E s \in Servers : ServerBind(s) \/ ServerPoll(s) \/ ServerFinish(s)

\* The proxy's start and stop commands and its server tasks.
SpecLifecycle == Init /\ [][NextLifecycle]_vars

\* The runtime schedules every spawned task: a server task that can bind,
\* see the cleared flag or finish does so.
FairLifecycle ==
    \A s \in Servers : /\ WF_vars(ServerBind(s))
                       /\ WF_vars(ServerPoll(s))
                       /\ WF_vars(ServerFinish(s))

SpecLifecycleFair == Init /\ [][NextLifecycle]_vars /\ FairLifecycle

\* A step of a flow through handle_request.
FlowStep(f) ==
    \/ FlowAccept(f)
    \/ ReadFlags(f)
    \/ ReadBody(f)
    \/ RequestDecision(f)
    \/ ForwardUpstream(f)
    \/ ResponseFlags(f)
    \/ ResponseDecision(f)
    \/ ScanAndIngest(f)

\* A statement of the add_asset a flow spawned.
IngestStep(t) ==
    \/ SelectId(t)
    \/ SelectRes(t)
    \/ InsertHistory(t)
    \/ UpdateAsset(t)
    \/ UpdateLastSeen(t)
    \/ InsertAsset(t)
    \/ InsertFindings(t)
    \/ TaskReturn(t)

\* A step of a resolve_interception command.
ResolveStep(c) ==
    \/ ResolveCall(c)
    \/ ResolveRequests(c)
    \/ ResolveResponses(c)
    \/ ResolveReturn(c)

\* The flow followed on its own.
SoloFlows == {"flow1"}

NextProxy ==
    \/ \E f \in SoloFlows : FlowStep(f) \/ IngestStep(f)
    \/ \E c \in Resolvers : ResolveStep(c)
    \/ SetProxyInterceptionConfig

\* The running proxy: flows, the operator's decisions and configuration.
SpecProxy == InitServing /\ [][NextProxy]_vars

\* The serving proxy on a new workspace with body capture and request
\* interception switched on (lib.rs:120-130).
InitIntercepting ==
    /\ InitStore
    /\ assets = {}
    /\ foreign_keys
    /\ InitCerts
    /\ InitEval
    /\ running = TRUE
    /\ capture_body = TRUE
    /\ intercept_requests = TRUE
    /\ intercept_responses = FALSE
    /\ pending_requests = {}
    /\ pending_responses = {}
    /\ chan = [i \in Ids |-> NoChan]
    /\ next_corr = 1
    /\ server = [s \in Servers |-> IF s = 1 THEN "serving" ELSE "none"]
    /\ next_server = 2
    /\ sc = [c \in Starters |-> IdleStarter]
    /\ flow = [f \in Flows |-> IdleFlow]
    /\ rc = [c \in Resolvers |-> IdleResolver]
    /\ resolves = 0
    /\ ok_resolves = [i \in Ids |-> 0]
    /\ config_sets = 0

\* A step the runtime takes for a flow once it is accepted.
FlowRun(f) ==
    \/ ReadFlags(f)
    \/ ReadBody(f)
    \/ RequestDecision(f)
    \/ ForwardUpstream(f)
    \/ ResponseFlags(f)
    \/ ScanAndIngest(f)
    \/ IngestStep(f)

\* A step of the operator's running resolve_interception command.
ResolveRun(c) ==
    \/ ResolveRequests(c)
    \/ ResolveResponses(c)
    \/ ResolveReturn(c)

\* The one operator of the concurrent flows.
Operator == "ui1"

NextFlows ==
    \/ \E f \in Flows : FlowAccept(f) \/ FlowAbort(f) \/ FlowRun(f)
    \/ ResolveCall(Operator)
    \/ ResolveRun(Operator)

\* The runtime schedules every task: an accepted flow, the add_asset it
\* spawned and a running command take their next step.  Requests,
\* disconnects and the operator's calls come as they come.
FairFlows ==
    /\ \A f \in Flows : WF_vars(FlowRun(f))
    /\ WF_vars(ResolveRun(Operator))

\* Concurrent intercepted flows, clients that disconnect, one operator.
SpecFlows == InitIntercepting /\ [][NextFlows]_vars /\ FairFlows

\* The serving proxy, on a new workspace, with the three flags as given.
InitFlags(capture, requests, responses) ==
    /\ InitStore
    /\ assets = {}
    /\ foreign_keys
    /\ InitCerts
    /\ InitEval
    /\ running = TRUE
    /\ capture_body = capture
    /\ intercept_requests = requests
    /\ intercept_responses = responses
    /\ pending_requests = {}
    /\ pending_responses = {}
    /\ chan = [i \in Ids |-> NoChan]
    /\ next_corr = 1
    /\ server = [s \in Servers |-> IF s = 1 THEN "serving" ELSE "none"]
    /\ next_server = 2
    /\ sc = [c \in Starters |-> IdleStarter]
    /\ flow = [f \in Flows |-> IdleFlow]
    /\ rc = [c \in Resolvers |-> IdleResolver]
    /\ resolves = 0
    /\ ok_resolves = [i \in Ids |-> 0]
    /\ config_sets = 0

\* Body capture on, no interception.
InitCapturing == InitFlags(TRUE, FALSE, FALSE)

\* A step of a CONNECT tunnel's task (proxy.rs:253-299).
TunnelStep(c) ==
    \/ GetServerConfigCall(c)
    \/ CertLock(c)
    \/ CertLookup(c)
    \/ CertSign(c)
    \/ CertInsert(c)
    \/ TlsAccept(c)
    \/ TunnelClose(c)

\* A step of a flow served inside a tunnel, no interception configured.
MitmFlowStep(f) ==
    \/ MitmAccept(f)
    \/ ReadFlags(f)
    \/ ReadBody(f)
    \/ ForwardUpstream(f)
    \/ ResponseFlags(f)
    \/ ScanAndIngest(f)
    \/ IngestStep(f)

\* The tunnel followed.
Tunnels == {"mitm1"}

NextMitm ==
    \/ \E c \in Tunnels : TunnelStep(c)
    \/ \E f \in Flows : MitmFlowStep(f)

\* CONNECT tunnels and the requests served inside them.
SpecMitm == InitCapturing /\ [][NextMitm]_vars

\* The request phase evaluated on a request received and a decision.
InitModify ==
    /\ InitStore /\ InitCerts /\ InitProxy
    /\ args \in {[fn |-> "modified_request", req |-> r, d |-> d] :
                     r \in ProxyRequests, d \in ModifyDecisions \cup {Forward}}
    /\ ret = <<>>

NextModify == ApplyModifiedRequest

SpecModify == InitModify /\ [][NextModify]_vars

\* An inventory of two assets recorded with body a, each with the finding
\* its scan gave (assets.rs:97-125).
InitStocked ==
    /\ assets = {[id |-> 1, url |-> "http://h/x", method |-> "GET",
                  source |-> "Import", status_code |-> "200",
                  req_body |-> NULL, res_body |-> "a", last_seen |-> 0],
                 [id |-> 2, url |-> "http://h/y", method |-> "GET",
                  source |-> "Import", status_code |-> "200",
                  req_body |-> NULL, res_body |-> "a", last_seen |-> 0]}
    /\ next_asset_id = 3
    /\ asset_history = <<>>
    /\ findings = <<[asset_id |-> 1, rule_id |-> "PII-EMAIL"],
                    [asset_id |-> 2, rule_id |-> "PII-EMAIL"]>>
    /\ foreign_keys \in BOOLEAN
    /\ clock = 0
    /\ tk = [t \in Tasks |-> IdleTask]
    /\ calls = 0
    /\ InitCerts /\ InitProxy /\ InitEval

\* The store commands, one after another, on that inventory.
SpecStockedSeq == InitStocked /\ [][NextStoreSeq]_vars

\* The drift detector and its two helpers, each evaluated on its inputs.
InitDrift ==
    /\ InitStore /\ assets = {} /\ foreign_keys
    /\ InitCerts /\ InitProxy
    /\ \/ args \in {[fn |-> "path_matches", tmpl |-> t, path |-> p] :
                        t \in StringsOf(TemplateSegments),
                        p \in StringsOf(PathSegments)}
       \/ args \in {[fn |-> "compare_schema_to_body", schema |-> sc1,
                      body |-> b] :
                        sc1 \in Schemas, b \in ObjectBodies \cup OtherBodies}
       \/ args \in {[fn |-> "detect_drift", url_str |-> u, method |-> m,
                      res_body |-> b, specs |-> sp] :
                        u \in DriftUrls, m \in DriftMethods,
                        b \in DriftBodies, sp \in SpecLists}
    /\ ret = <<>>

NextDrift ==
    \/ ApplyPathMatches
    \/ ApplyCompareSchema
    \/ ApplyDetectDrift

SpecDrift == InitDrift /\ [][NextDrift]_vars

\* The scanner and its two rule loops, each evaluated on its inputs.
InitScan ==
    /\ InitStore /\ assets = {} /\ foreign_keys
    /\ InitCerts /\ InitProxy
    /\ \/ args \in {[fn |-> "scan_custom", content |-> c, rules |-> r] :
                        c \in ScanContents, r \in ListsOf(CustomRules)}
       \/ args \in {[fn |-> "scan_with_plugins", content |-> c, plugins |-> pl] :
                        c \in ScanContents, pl \in ListsOf(PluginPacks)}
       \/ args \in {[fn |-> "scan_text", content |-> c, custom_rules |-> r,
                      plugins |-> pl] :
                        c \in ScanContents, r \in ListsOf(CustomRules),
                        pl \in ListsOf(PluginPacks)}
       \/ \E list \in AddressLists :
             args \in {[fn |-> "scan_pii", content |-> c, addresses |-> list] :
                          c \in TextsOf(list)}
    /\ ret = <<>>

NextScan ==
    \/ ApplyScanCustom
    \/ ApplyScanWithPlugins
    \/ ApplyScanText
    \/ ApplyScanPii

SpecScan == InitScan /\ [][NextScan]_vars

InitPlugins ==
    /\ InitStore /\ assets = {} /\ foreign_keys
    /\ InitCerts /\ InitProxy
    /\ args \in {[fn |-> "load_plugins", dir |-> d, mkdir_ok |-> m,
                  write_ok |-> w] :
                     d \in PluginDirs, m \in BOOLEAN, w \in BOOLEAN}
    /\ ret = <<>>

NextPlugins == ApplyLoadPlugins

SpecPlugins == InitPlugins /\ [][NextPlugins]_vars

\* ------------------------------------------------------ store properties
\* The asset rows a step leaves as they were, last_seen aside.
SameButLastSeen(a, b) == b = [a EXCEPT !.last_seen = b.last_seen]

\* Whether task t takes a step.
Steps(t) == tk'[t] # tk[t]

\* The rows a step appends to asset_history.
Appended == (Len(asset_history) + 1)..Len(asset_history')

HistoryKept ==
    /\ Len(asset_history') >= Len(asset_history)
    /\ SubSeq(asset_history', 1, Len(asset_history)) = asset_history

\* C1: after any interleaving of add_asset, batch_add_assets and
\* batch_import_full calls the assets table holds at most one row per URL.
C1_AtMostOneRowPerUrl ==
    \A u \in Urls : Cardinality(RowsByUrl(u)) <= 1

\* C5 as stated: history rows are only ever appended, and each appended row
\* holds the asset's stored response body at the instant before an add_asset
\* that replaces it with a differing body.
C5_SnapshotBeforeDifferingBody ==
    [][/\ HistoryKept
       /\ \A i \in Appended :
            \E t \in Tasks, a \in assets :
               /\ tk[t].pc = "insert_history" /\ tk'[t].pc = "update_asset"
               /\ tk[t].existing_id = <<a.id>>
               /\ asset_history'[i].asset_id = a.id
               /\ asset_history'[i].res_body = a.res_body
               /\ tk[t].req.res_body # a.res_body]_vars

\* C5 as amended: history rows are only ever appended, and each appended row
\* holds the asset's stored (status_code, res_body) at the instant before an
\* add_asset that replaces it with a differing (status_code, res_body).
C5_SnapshotBeforeDifferingPair ==
    [][/\ HistoryKept
       /\ \A i \in Appended :
            \E t \in Tasks, a \in assets :
               /\ tk[t].pc = "insert_history" /\ tk'[t].pc = "update_asset"
               /\ tk[t].existing_id = <<a.id>>
               /\ asset_history'[i].asset_id = a.id
               /\ Pair(asset_history'[i]) = Pair(a)
               /\ Pair(tk[t].req) # Pair(a)]_vars

\* C5's case: a snapshot was taken and its asset now holds another pair,
\* after a command other than add_asset has run too.
C5_Witness ==
    /\ calls = MaxCalls
    /\ \E i \in 1..Len(asset_history) : \E a \in assets :
          /\ a.id = asset_history[i].asset_id
          /\ Pair(a) # Pair(asset_history[i])

\* C6: whenever add_asset overwrites a stored (status_code, res_body) whose
\* body is not null, a history row holding the old pair has been written
\* first, and the asset then holds the request's pair.
C6_SnapshotBeforeOverwrite ==
    [][\A a \in assets : \A b \in assets' :
          (b.id = a.id /\ Pair(b) # Pair(a) /\ a.res_body # NULL) =>
             /\ \E i \in 1..Len(asset_history) :
                   /\ asset_history[i].asset_id = a.id
                   /\ Pair(asset_history[i]) = Pair(a)
             /\ \E t \in Tasks : Steps(t) /\ Pair(b) = Pair(tk[t].req)]_vars

\* C7: an add_asset that reads a stored pair identical to its request's
\* takes the last_seen branch; that branch and the findings inserts after it
\* add no history row and change no column of any asset but last_seen of
\* the asset found, which becomes the current timestamp.
C7_NoChangeUpdate ==
    [][\A t \in Tasks :
          /\ ( /\ tk[t].pc = "select_res" /\ Steps(t)
               /\ \E a \in RowsById(tk[t].existing_id[1]) :
                     Pair(a) = Pair(tk[t].req) )
             => /\ tk'[t].pc = "update_last_seen"
                /\ assets' = assets /\ asset_history' = asset_history
          /\ (tk[t].pc = "update_last_seen" /\ Steps(t))
             => /\ asset_history' = asset_history
                /\ Cardinality(assets') = Cardinality(assets)
                /\ \A a \in assets : \E b \in assets' :
                      /\ SameButLastSeen(a, b)
                      /\ b.last_seen = IF <<a.id>> = tk[t].existing_id
                                       THEN clock ELSE a.last_seen
          /\ ( /\ tk[t].pc = "insert_findings" /\ Steps(t)
               /\ tk[t].existing_id # <<>> /\ ~tk[t].changed )
             => assets' = assets /\ asset_history' = asset_history]_vars

\* C7's case: an add_asset found its pair unchanged and has refreshed
\* last_seen of the asset to a later timestamp.
C7_Witness ==
    \E t \in Tasks : \E a \in assets :
       /\ tk[t].op = "add_asset" /\ tk[t].pc = "insert_findings"
       /\ tk[t].existing_id = <<a.id>> /\ ~tk[t].changed
       /\ Pair(a) = Pair(tk[t].req)
       /\ a.last_seen = clock /\ clock > 0
       /\ asset_history = <<>>

\* ------------------------------------------------------ proxy properties
Pending == pending_requests \cup pending_responses

\* A step of the resolve_interception call of c.
ResolveStepOf(c) == rc'[c] # rc[c]

\* The step with which the call of c returns Ok.
ReturnsOk(c) ==
    /\ rc[c].pc # "returned"
    /\ rc'[c].pc = "returned"
    /\ rc'[c].ret = "ok"

\* C2: when resolve_interception returns success its id is in neither
\* pending table, and stays out while the result is held; every step of a
\* call that does not return success (so every step of a call that returns
\* the not-found error) leaves both tables as they were.
C2_ResolveOutcome ==
    /\ [][\A c \in Resolvers :
            ResolveStepOf(c) =>
               IF ReturnsOk(c)
               THEN rc'[c].id \notin pending_requests' \cup pending_responses'
               ELSE /\ pending_requests' = pending_requests
                    /\ pending_responses' = pending_responses]_vars
    /\ [](\A c \in Resolvers :
            rc[c].pc = "returned" /\ rc[c].ret = "ok" => rc[c].id \notin Pending)

\* A call has returned Ok for the id of a response the flow is waiting on.
C2_Witness ==
    \E c \in Resolvers, f \in Flows :
       /\ rc[c].pc = "returned"
       /\ rc[c].ret = "ok"
       /\ flow[f].pc = "await_response"
       /\ flow[f].id = <<rc[c].id>>

\* C3: for every correlation id at most one resolve_interception call
\* returns Ok, the others return the not-found error, and at most one
\* decision is sent to the flow that registered the id.
C3_ResolvedOnce ==
    /\ \A i \in Ids : ok_resolves[i] <= 1 /\ Len(chan[i].sent) <= 1
    /\ \A c, d \in Resolvers :
          (/\ c # d
           /\ rc[c].pc = "returned"
           /\ rc[d].pc = "returned"
           /\ rc[c].id = rc[d].id
           /\ rc[c].ret = "ok") => rc[d].ret = "not_found"

\* Two overlapping calls with the id of a registered request: one has
\* returned Ok, the other the not-found error, and the flow has its decision.
C3_Witness ==
    \E c, d \in Resolvers, f \in Flows :
       /\ rc[c].pc = "returned" /\ rc[c].ret = "ok"
       /\ rc[d].pc = "returned" /\ rc[d].ret = "not_found"
       /\ rc[c].id = rc[d].id
       /\ rc[c].id \in KnownIds
       /\ flow[f].decisions = <<[stage |-> "request", action |-> rc[c].action]>>

\* The flow has been answered and the add_asset it spawned has ended.
Recorded(f) ==
    /\ flow[f].pc = "done"
    /\ flow[f].upstream # <<>>
    /\ tk[f].pc = "idle"

\* C4: when the operator resolves a pending request with ModifyRequest
\* carrying body B, the upstream receives body B and the asset recorded for
\* the flow stores req_body = B.
C4_ModifiedBodyStored ==
    \A f \in Flows :
       (/\ Recorded(f)
        /\ flow[f].decisions # <<>>
        /\ flow[f].decisions[1].stage = "request"
        /\ flow[f].decisions[1].action.tag = "ModifyRequest") =>
          /\ flow[f].upstream[1].body = flow[f].decisions[1].action.body
          /\ \E a \in assets :
                /\ a.url = flow[f].url
                /\ a.req_body = flow[f].decisions[1].action.body

\* The server tasks that have been spawned and have not ended.
AliveServers == {s \in Servers : server[s] \in {"spawned", "serving", "draining"}}

\* C8: at most one proxy server task is running at any time, and a
\* start_proxy_server that goes on to spawn a server found none running.
C8_OneServerTask ==
    /\ Cardinality(AliveServers) <= 1
    /\ \A c \in Starters : sc[c].pc = "store" => AliveServers = {}

\* C9: a serving instance whose flag stop_proxy_server has cleared
\* eventually stops accepting and terminates, whatever is issued afterwards.
C9_StoppedInstanceTerminates ==
    \A s \in Servers : (server[s] = "serving" /\ ~running) ~> (server[s] = "done")

\* ------------------------------------------------------- flow properties
\* The ids the flow has shown to the operator with event `name`.
EventIds(f, name) ==
    {flow[f].events[i].id :
        i \in {j \in 1..Len(flow[f].events) : flow[f].events[j].event = name}}

RequestIds(f) == EventIds(f, "proxy-intercept-request")
ResponseIds(f) == EventIds(f, "proxy-intercept-response")

\* The flow's interception under id i has finished: the operator's call
\* has succeeded and the handler has taken the decision.
Finished(i) == ok_resolves[i] = 1 /\ chan[i].rx = "taken"

\* The flow has made its upstream call.
Forwarded(f) == flow[f].upstream # <<>>

\* The flow has been scanned (the traffic event follows the scan).
Scanned(f) ==
    \E i \in 1..Len(flow[f].events) : flow[f].events[i].event = "proxy-traffic"

\* The decisions the flow got in a phase.
DecisionsAt(f, stage) ==
    {flow[f].decisions[i].action :
        i \in {j \in 1..Len(flow[f].decisions) : flow[f].decisions[j].stage = stage}}

\* C11: within a flow the steps run in the order request interception,
\* upstream call, response interception, scan, asset-store upsert: a step
\* has started only if every earlier step has finished.
C11_StrictFlowOrder ==
    \A f \in Flows :
       /\ Forwarded(f) => \A i \in RequestIds(f) : Finished(i)
       /\ ResponseIds(f) # {} =>
             Forwarded(f) /\ flow[f].answer # NoHttpResponse
       /\ Scanned(f) =>
             /\ flow[f].answer # NoHttpResponse
             /\ \A i \in ResponseIds(f) : Finished(i)
       /\ tk[f].pc # "idle" => Scanned(f)

\* C11's case: a flow intercepted in both phases has been through all five
\* steps; its add_asset has ended.
C11_Witness ==
    \E f \in Flows :
       /\ RequestIds(f) # {} /\ ResponseIds(f) # {}
       /\ Scanned(f)
       /\ tk[f].pc = "returned"

\* C12: a flow whose pending request was resolved with Drop answers the
\* client with status 403 and the fixed body and never calls the upstream.
C12_DropNeverForwards ==
    \A f \in Flows :
       Drop \in DecisionsAt(f, "request") =>
          /\ flow[f].client = <<DroppedReply>>
          /\ DroppedReply.status = "403"
          /\ ~Forwarded(f)
          /\ flow[f].pc = "done"

\* C12's case: the operator's Drop has reached the flow.
C12_Witness ==
    \E f \in Flows, c \in Resolvers :
       /\ Drop \in DecisionsAt(f, "request")
       /\ rc[c].pc = "returned" /\ rc[c].action = Drop /\ rc[c].ret = "ok"

\* C13: a flow whose pending request was resolved with ModifyResponse sends
\* upstream what Forward sends: the method, URL, headers and body received.
C13_ModifyResponseForwards ==
    \A f \in Flows :
       (/\ Forwarded(f)
        /\ DecisionsAt(f, "request") # {}
        /\ \A d \in DecisionsAt(f, "request") :
              d.tag \in {"ModifyResponse", "Forward"}) =>
          flow[f].upstream = <<flow[f].received>>

\* C13's case: a request resolved with ModifyResponse has gone upstream.
C13_Witness ==
    \E f \in Flows :
       /\ Forwarded(f)
       /\ \E d \in DecisionsAt(f, "request") : d.tag = "ModifyResponse"

\* C14: the client receives the upstream's response as it came unless the
\* pending response was resolved with ModifyResponse; in particular when it
\* was resolved with ModifyRequest or Forward.
C14_OnlyModifyResponseChanges ==
    \A f \in Flows :
       (Forwarded(f) /\ flow[f].pc = "done") =>
          \/ flow[f].client = <<flow[f].answer>>
          \/ \E d \in DecisionsAt(f, "response") : d.tag = "ModifyResponse"

\* C14's case: a response resolved with ModifyRequest has reached the client.
C14_Witness ==
    \E f \in Flows :
       /\ flow[f].pc = "done"
       /\ \E d \in DecisionsAt(f, "response") : d.tag = "ModifyRequest"
       /\ flow[f].client = <<flow[f].answer>>

\* C15: a flow whose pending response was resolved with Drop answers the
\* client with the fixed 403 reply, not with the upstream's response.
C15_ResponseDropReplies403 ==
    \A f \in Flows :
       (flow[f].pc = "done" /\ Drop \in DecisionsAt(f, "response")) =>
          flow[f].client = <<DroppedReply>>

\* C16: when the upstream call fails the client receives a bad-gateway
\* response and the flow is still recorded, with status 0 or 502.
C16_UpstreamFailureRecorded ==
    \A f \in Flows :
       flow[f].pc = "failed" =>
          /\ flow[f].client # <<>>
          /\ flow[f].client[1].status = "502"
          /\ \/ tk[f].pc # "idle"
             \/ \E a \in assets : /\ a.url = flow[f].url
                                  /\ a.status_code \in {"0", "502"}

\* The request the flow received asks for a WebSocket upgrade.
UpgradeReceived(f) == <<"upgrade", "websocket">> \in flow[f].received.headers

\* C17: for a flow whose request carries Upgrade: websocket (and was not
\* rewritten by the operator), whatever the flags: no response is
\* registered for interception, and the asset it is recorded as carries
\* neither body and has source 'Live Proxy (WS)'.
C17_WebSocketBypass ==
    \A f \in Flows :
       (/\ UpgradeReceived(f)
        /\ \A d \in DecisionsAt(f, "request") : d.tag # "ModifyRequest") =>
          /\ ResponseIds(f) = {}
          /\ tk[f].pc \notin {"idle", "returned"} =>
                /\ tk[f].req.source = "Live Proxy (WS)"
                /\ tk[f].req.req_body = NULL
                /\ tk[f].req.res_body = NULL

\* C18: the entry of a flow that was aborted while it awaited the
\* operator's decision is eventually removed from the pending table.
C18_AbortedEntryRemoved ==
    \A i \in Ids : (chan[i].rx = "dropped" /\ i \in Pending) ~> (i \notin Pending)

\* The flow awaits a decision the operator has not sent.
WaitingUnresolved(f) ==
    /\ flow[f].pc \in {"await_request", "await_response"}
    /\ chan[flow[f].id[1]].sent = <<>>

\* The flow has answered its client: with the fixed reply to a drop, or
\* with the response after it was recorded.
Completed(f) ==
    /\ flow[f].pc = "done"
    /\ Drop \in DecisionsAt(f, "request") \/ Recorded(f)

\* C19: whatever another flow waits for, an accepted flow that does not
\* wait for the operator for ever (and whose client stays) eventually
\* completes and is recorded.
C19_OtherFlowsComplete ==
    \A f \in Flows :
       ([]<>(~WaitingUnresolved(f))) =>
          ((flow[f].pc # "idle") ~> (Completed(f) \/ flow[f].pc = "aborted"))

\* C20: a request served inside a tunnel opened to host H is forwarded
\* upstream, and recorded, under the URL https://H followed by its
\* origin-form path, whatever its Host header.
C20_TunnelHostInUrl ==
    \A f \in Flows :
       (flow[f].tunnel # NULL /\ Forwarded(f)) =>
          /\ flow[f].upstream[1].url = HttpsUrl(flow[f].tunnel, flow[f].received.url)
          /\ tk[f].pc \notin {"idle", "returned"} =>
                tk[f].req.url = HttpsUrl(flow[f].tunnel, flow[f].received.url)

\* The configuration is the one the process starts with: the three flags
\* are false and have been since the start.
NeverConfigured ==
    /\ config_sets = 0
    /\ ~capture_body /\ ~intercept_requests /\ ~intercept_responses

\* C21: a flow handled while the three flags are false buffers no body:
\* nothing is registered in either pending table, only the URL is scanned,
\* and the asset it is recorded as has null req_body and res_body.
C21_PassThrough ==
    NeverConfigured =>
       /\ Pending = {}
       /\ \A f \in Flows :
            /\ RequestIds(f) = {} /\ ResponseIds(f) = {}
            /\ flow[f].body_str = NULL
            /\ flow[f].req_body_str = NULL
            /\ flow[f].res_body_str = NULL
            /\ tk[f].pc \notin {"idle", "returned"} =>
                  /\ tk[f].req.req_body = NULL
                  /\ tk[f].req.res_body = NULL
                  /\ tk[f].req.findings = ScanText(flow[f].url)
       /\ \A a \in assets :
            a.source \in {"Live Proxy", "Live Proxy (WS)"} =>
               a.req_body = NULL /\ a.res_body = NULL

\* C21's case: a flow has been through the proxy and recorded under the
\* starting configuration.
C21_Witness ==
    /\ NeverConfigured
    /\ \E f \in Flows :
          /\ flow[f].pc = "done" /\ Forwarded(f)
          /\ tk[f].pc = "returned"
          /\ \E a \in assets : a.url = flow[f].url /\ a.source = "Live Proxy"

\* C22: the fields of a ModifyRequest decision are applied one by one: a
\* method or a URL that does not parse leaves the original in place, a
\* header whose name or value is invalid is omitted, and every other
\* replacement is applied all the same.
C22_FieldsAppliedIndependently ==
    (args.fn = "modified_request" /\ ret # <<>>
        /\ args.d.tag = "ModifyRequest") =>
       LET d == args.d
           req == args.req
           r == ret[1]
           Valid(p) == /\ HeaderNameFromBytes(p[1]) # <<>>
                       /\ HeaderValueFromBytes(p[2]) # <<>>
       IN /\ r.method = IF MethodFromBytes(d.method) # <<>>
                         THEN d.method ELSE req.method
          /\ r.url = IF UriParse(d.url) # <<>> THEN d.url ELSE req.url
          /\ \A p \in d.headers :
                Valid(p) <=>
                   /\ HeaderNameFromBytes(p[1]) # <<>>
                   /\ <<HeaderNameFromBytes(p[1])[1], p[2]>> \in r.headers
          /\ \A h \in r.headers :
                \E p \in d.headers :
                   Valid(p) /\ h = <<HeaderNameFromBytes(p[1])[1], p[2]>>
          /\ r.body = UnwrapOrDefault(d.body)

\* C22's case: a decision with a method that does not parse, a URL that
\* does, one valid header and two invalid ones has been applied.
C22_Witness ==
    /\ args.fn = "modified_request" /\ ret # <<>>
    /\ args.d.tag = "ModifyRequest"
    /\ MethodFromBytes(args.d.method) = <<>>
    /\ UriParse(args.d.url) # <<>>
    /\ Cardinality(args.d.headers) = 3
    /\ ret[1].method = args.req.method
    /\ ret[1].url = args.d.url /\ ret[1].url # args.req.url
    /\ ret[1].headers = {<<"x-test", "1">>}

\* C23: an add_asset for a stored URL for which "the pair differs and the
\* stored response body is non-null" does not hold, so also one that reads a
\* null stored body and carries another status or body, leaves status_code
\* and res_body of every asset as they were: its update statement changes
\* last_seen at most.
C23_OtherwiseLastSeenOnly ==
    [][\A t \in Tasks :
          ( /\ Steps(t)
            /\ tk[t].pc \in {"insert_history", "update_asset", "update_last_seen"}
            /\ ~(tk[t].changed /\ tk[t].existing_res[2] # NULL) )
          => /\ Cardinality(assets') = Cardinality(assets)
             /\ \A a \in assets : \E b \in assets' : SameButLastSeen(a, b)]_vars

\* Whether the request of task t differs from the pair it read.
PairDiffers(t) ==
    \/ tk[t].req.status_code # tk[t].existing_res[1]
    \/ tk[t].req.res_body # tk[t].existing_res[2]

\* C23 (as amended): an add_asset for a stored URL whose pair does not
\* differ from the stored one leaves status_code and res_body of every asset
\* as they were and refreshes last_seen only; one whose pair differs while
\* the stored response body is null writes the request's status_code and
\* res_body to that asset and leaves the others alone; neither appends a
\* history row.
C23_UnchangedPairLastSeenOnly ==
    [][\A t \in Tasks :
          ( /\ Steps(t)
            /\ tk[t].pc \in {"insert_history", "update_asset", "update_last_seen"}
            /\ ~(PairDiffers(t) /\ tk[t].existing_res[2] # NULL) )
          => /\ asset_history' = asset_history
             /\ Cardinality(assets') = Cardinality(assets)
             /\ \A a \in assets : \E b \in assets' :
                   /\ SameButLastSeen([a EXCEPT !.status_code = b.status_code,
                                                !.res_body = b.res_body], b)
                   /\ IF PairDiffers(t) /\ a.id = tk[t].existing_id[1]
                      THEN /\ b.status_code = tk[t].req.status_code
                           /\ b.res_body = tk[t].req.res_body
                      ELSE /\ b.status_code = a.status_code
                           /\ b.res_body = a.res_body]_vars

\* A call that read a null stored body and another pair has written its
\* own status and body to the asset, with no history row for it.
C23_Witness ==
    \E t \in Tasks :
        /\ tk[t].pc = "insert_findings"
        /\ tk[t].existing_id # <<>>
        /\ tk[t].existing_res[2] = NULL
        /\ PairDiffers(t)
        /\ tk[t].req.res_body # NULL
        /\ HistoryOf(tk[t].existing_id[1]) = <<>>
        /\ \E a \in assets :
              /\ a.id = tk[t].existing_id[1]
              /\ a.status_code = tk[t].req.status_code
              /\ a.res_body = tk[t].req.res_body

\* The finding rows of asset id in sequence fs.
FindingsOfAsset(fs, id) == SelectSeq(fs, LAMBDA f : f.asset_id = id)

\* C24: when delete_asset(id) returns success no asset row has that id and
\* no finding row has it as asset_id; when clear_inventory returns success
\* both tables are empty; in both, the findings are removed by an earlier
\* statement than the asset rows, which that statement leaves in place.
C24_FindingsThenAssets ==
    [][\A t \in Tasks :
          /\ ( /\ tk[t].pc = "d_asset" /\ Steps(t)
               /\ tk'[t].ret.kind = "ok" )
             => LET id == tk[t].existing_id[1]
                IN /\ \A a \in assets' : a.id # id
                   /\ FindingsOfAsset(findings', id) = <<>>
                   /\ FindingsOfAsset(findings, id) = <<>>
          /\ ( /\ tk[t].pc = "c_assets" /\ Steps(t)
               /\ tk'[t].ret.kind = "ok" )
             => /\ assets' = {} /\ findings' = <<>>
                /\ findings = <<>>
          /\ (tk[t].pc \in {"d_findings", "c_findings"} /\ Steps(t))
             => /\ assets' = assets
                /\ tk'[t].pc \in {"d_asset", "c_assets"}]_vars

\* C24's case: delete_asset has returned success for one of two assets that
\* each had a finding; the other asset and its finding are still there.
C24_Witness ==
    \E t \in Tasks : \E a \in assets :
       /\ tk[t].op = "delete_asset" /\ tk[t].pc = "returned"
       /\ tk[t].ret.kind = "ok"
       /\ assets = {a}
       /\ Len(findings) = 1 /\ findings[1].asset_id = a.id
       /\ calls = 1

\* The elements of a sequence.
Range(seq) == {seq[i] : i \in 1..Len(seq)}

\* C25: a batch_add_assets that returns Ok reports added + skipped = the
\* length of its list and added = the number of distinct URLs of the list
\* that were not stored when it was called; each of those is stored once,
\* with method GET; every asset stored before is still there with nothing
\* but last_seen changed, and no other asset has appeared.
C25_BatchCounts ==
    [][\A t \in Tasks :
          ( /\ tk[t].op = "batch_add_assets" /\ Steps(t)
            /\ tk'[t].pc = "returned" /\ tk'[t].ret.kind = "ok" )
          => LET list == tk[t].request_urls
                 before == tk[t].before
                 new == Range(list) \ {a.url : a \in before}
                 r == tk'[t].ret
             IN /\ r.added + r.skipped = Len(list)
                /\ r.added = Cardinality(new)
                /\ \A u \in new :
                      /\ Cardinality(RowsByUrl(u)') = 1
                      /\ \A a \in RowsByUrl(u)' : a.method = "GET"
                /\ \A a \in before :
                      \E b \in assets' : SameButLastSeen(a, b)
                /\ Cardinality(assets') = Cardinality(before) + r.added]_vars

\* C25's case: a batch over a list naming one new URL twice has returned:
\* the URL was added once, as a GET, and skipped once.
C25_Witness ==
    \E t \in Tasks : \E a \in assets :
       /\ tk[t].op = "batch_add_assets" /\ tk[t].pc = "returned"
       /\ tk[t].ret.kind = "ok"
       /\ tk[t].ret.added = 1 /\ tk[t].ret.skipped = 1
       /\ assets = {a} /\ a.url = "http://h/y" /\ a.method = "GET"

\* ------------------------------------------------------- drift properties
\* The findings of a result that carry rule_id.
WithRule(out, rule_id) == SelectSeq(out, LAMBDA f : f.rule_id = rule_id)

\* The entries of a stored spec's "paths" whose template matches path.
MatchingEntries(spec, path) ==
    IF ~spec.content.json \/ spec.content.paths = <<>> \/ path = <<>> THEN {}
    ELSE {spec.content.paths[1][i] : i \in
             {j \in 1..Len(spec.content.paths[1]) :
                 path_matches(spec.content.paths[1][j][1], path[1])}}

\* Whether method, letter case aside, is a key of the entry.
Documents(entry, method) ==
    \E kv \in entry[2] : ToLowercase(kv[1]) = ToLowercase(method)

C27_MissingAndExtraCounts ==
    ( /\ args.fn = "compare_schema_to_body" /\ ret # <<>>
      /\ args.body.parsed # <<>> /\ args.body.parsed[1].object ) =>
       LET keys == args.body.parsed[1].keys
           required == IF args.schema.required = <<>> THEN <<>>
                       ELSE args.schema.required[1]
       IN /\ Len(WithRule(ret[1], "DRIFT-MISSING-FIELD"))
                = Cardinality({i \in 1..Len(required) : required[i] \notin keys})
          /\ args.schema.properties # <<>> =>
                Len(WithRule(ret[1], "DRIFT-EXTRA-FIELD"))
                   = Cardinality(keys \ args.schema.properties[1])

\* The segments of a string: the pieces between its slashes.
Segments(str) == SplitSlash(str)

\* C28: path_matches holds exactly when template and path have the same
\* number of segments and, at each position, the template's segment is a
\* {name} and the path's is not empty, or the two segments are equal.
C28_SegmentWiseMatch ==
    (args.fn = "path_matches" /\ ret # <<>>) =>
       LET t == Segments(args.tmpl)
           p == Segments(args.path)
       IN ret[1] <=>
             /\ Len(t) = Len(p)
             /\ \A i \in 1..Len(t) :
                   \/ IsParam(t[i]) /\ p[i] # <<>>
                   \/ t[i] = p[i]

\* C28's case: /u/{i} has been matched against /u/12 and holds.
C28_Witness ==
    /\ args.fn = "path_matches" /\ ret = <<TRUE>>
    /\ args.tmpl = <<"/", "u", "/", "{", "i", "}">>
    /\ args.path = <<"/", "u", "/", "1", "2">>

\* ----------------------------------------------------- scanner properties
\* How often finding f occurs in out.
Multiplicity(out, f) == Cardinality({i \in 1..Len(out) : out[i] = f})

SameMultiset(out1, out2) ==
    /\ Len(out1) = Len(out2)
    /\ \A i \in 1..Len(out1) :
          Multiplicity(out1, out1[i]) = Multiplicity(out2, out1[i])

OfRule(out, rule_id) == SelectSeq(out, LAMBDA f : f.rule_id = rule_id)

\* The rules of the packs of a list.
PackRules(plugins) ==
    UNION {{<<plugins[k], plugins[k].rules[i]>> :
               i \in 1..Len(plugins[k].rules)} : k \in 1..Len(plugins)}

\* C30: a custom or plugin rule whose pattern does not compile gives no
\* finding and stops nothing: the result holds, for every other rule, one
\* finding per match of its pattern, and nothing else.
C30_BadRegexSkipped ==
    /\ (args.fn = "scan_custom" /\ ret # <<>>) =>
          /\ \A k \in 1..Len(args.rules) :
                LET rule == args.rules[k]
                IN OfRule(ret[1], rule.rule_id) =
                      IF RegexNew(rule.regex) = <<>> THEN <<>>
                      ELSE CustomRuleFindings(rule, args.content)
          /\ \A i \in 1..Len(ret[1]) :
                \E k \in 1..Len(args.rules) :
                   ret[1][i].rule_id = args.rules[k].rule_id
    /\ (args.fn = "scan_with_plugins" /\ ret # <<>>) =>
          /\ \A pr \in PackRules(args.plugins) :
                OfRule(ret[1], pr[2].id) =
                   IF RegexNew(pr[2].regex) = <<>> THEN <<>>
                   ELSE PluginRuleFindings(pr[1], pr[2], args.content)
          /\ \A i \in 1..Len(ret[1]) :
                \E pr \in PackRules(args.plugins) : ret[1][i].rule_id = pr[2].id

\* C30's case: a rule whose pattern does not compile came first, and the
\* rules after it have given their findings.
C30_Witness ==
    /\ args.fn = "scan_custom" /\ ret # <<>>
    /\ Len(args.rules) = 3
    /\ RegexNew(args.rules[1].regex) = <<>>
    /\ Len(OfRule(ret[1], args.rules[2].rule_id)) > 0
    /\ Len(OfRule(ret[1], args.rules[3].rule_id)) > 0

\* The findings of rule rule_id among fs, in order.
FindingsOfRule(fs, rule_id) == SelectSeq(fs, LAMBDA f : f.rule_id = rule_id)

Stale(t) ==
    \E a \in assets : a.id = tk[t].existing_id[1] /\ Pair(a) # tk[t].existing_res

\* The rows of history h that hold pair p of asset id.
Snapshots(h, id, p) ==
    {k \in 1..Len(h) : /\ h[k].asset_id = id
                        /\ <<h[k].status_code, h[k].res_body>> = p}

\* C35: the history INSERT and the asset UPDATE of add_asset are statements
\* of their own: the INSERT stores the pair the call read earlier, whatever
\* is stored by then, and the UPDATE replaces whatever is stored; a call's
\* read is out of date only when another command has been started.  So two
\* calls for one stored URL can snapshot the same old pair twice and leave
\* a pair the asset held without a snapshot (the witness).
C35_SnapshotIsOfTheRead ==
    [][\A t \in Tasks :
          (Steps(t) /\ tk[t].pc \in {"insert_history", "update_asset"})
          => /\ tk[t].pc = "insert_history"
                => \A k \in Appended :
                      /\ asset_history'[k].asset_id = tk[t].existing_id[1]
                      /\ asset_history'[k].status_code = tk[t].existing_res[1]
                      /\ asset_history'[k].res_body = tk[t].existing_res[2]
             /\ tk[t].pc = "update_asset"
                => /\ asset_history' = asset_history
                   /\ \A b \in assets' :
                         b.id = tk[t].existing_id[1]
                         => Pair(b) = <<tk[t].req.status_code, tk[t].req.res_body>>
             /\ Stale(t) => calls >= 2]_vars

\* Two calls read the same pair of one asset and both have updated it: the
\* pair they read is in the history twice, and of the two pairs written the
\* one no longer stored, held with a body, is in no row.
C35_Witness ==
    \E t1, t2 \in Tasks :
        /\ t1 # t2
        /\ tk[t1].op = "add_asset" /\ tk[t2].op = "add_asset"
        /\ tk[t1].pc = "insert_findings" /\ tk[t2].pc = "insert_findings"
        /\ tk[t1].existing_id # <<>>
        /\ tk[t1].existing_id = tk[t2].existing_id
        /\ tk[t1].existing_res = tk[t2].existing_res
        /\ LET id == tk[t1].existing_id[1]
               lost == <<tk[t1].req.status_code, tk[t1].req.res_body>>
           IN /\ Cardinality(Snapshots(asset_history, id, tk[t1].existing_res)) = 2
              /\ Len(HistoryOf(id)) = 2
              /\ lost[2] # NULL
              /\ Snapshots(asset_history, id, lost) = {}
              /\ \E a \in assets :
                    /\ a.id = id
                    /\ Pair(a) = <<tk[t2].req.status_code, tk[t2].req.res_body>>
                    /\ Pair(a) # lost

\* C36: under every interleaving of the store's commands, every finding
\* row's asset_id is the id of an asset row.
C36_NoOrphanFinding ==
    \A i \in 1..Len(findings) : RowsById(findings[i].asset_id) # {}

\* An add_asset found its asset deleted by a delete_asset that returned Ok
\* and was refused the finding row: both tables are empty.
C36_Witness ==
    \E t1, t2 \in Tasks :
        /\ t1 # t2
        /\ tk[t1].op = "add_asset" /\ tk[t1].pc = "returned"
        /\ tk[t1].ret.kind = "err"
        /\ tk[t2].op = "delete_asset" /\ tk[t2].pc = "returned"
        /\ tk[t2].ret.kind = "ok"
        /\ assets = {} /\ findings = <<>>

\* What add_asset call t has to insert: the findings of its request, then
\* those of drift detection.
AllFindings(t) == tk[t].req.findings \o DriftFindings(tk[t].req, tk[t].specs)

\* C37: when an add_asset call returns Ok, the finding rows it inserted are
\* one per finding of its request and one per drift finding, in that order,
\* each with the asset id it returns, whether the URL was stored and whether
\* the same findings were: nothing is left out as a duplicate.
C37_OneRowPerFinding ==
    [][\A t \in Tasks :
          ( /\ tk[t].op = "add_asset" /\ tk[t].pc = "insert_findings"
            /\ tk'[t].pc = "returned" /\ tk'[t].ret.kind = "ok" )
          => LET all == AllFindings(t)
                 base == Len(findings') - Len(all)
             IN /\ tk'[t].ret.id = tk[t].asset_id
                /\ base >= 0
                /\ \A i \in 1..Len(all) :
                      findings'[base + i] =
                         [asset_id |-> tk'[t].ret.id[1], rule_id |-> all[i]]]_vars

\* The same request has been recorded twice with two specs stored: its
\* finding and the two drift findings are stored twice for the asset.
C37_Witness ==
    \E t \in Tasks :
        /\ tk[t].op = "add_asset" /\ tk[t].pc = "returned"
        /\ tk[t].ret.kind = "ok"
        /\ calls = 2
        /\ Cardinality(assets) = 1
        /\ Len(findings) = 6
        /\ \A i \in 1..3 : findings[i] = findings[i + 3]
        /\ findings[1].rule_id = "PII-EMAIL"
        /\ findings[2].rule_id = "DRIFT-UNDOCUMENTED-METHOD"

\* ----------------------------------------------- interception properties
\* The intercept events emitted so far, of every flow.
InterceptEvents ==
    UNION {{flow[f].events[i] : i \in 1..Len(flow[f].events)} : f \in Flows}

C34_SuspendedWhilePending ==
    \A f \in Flows :
        /\ \A i \in RequestIds(f) :
              i \in pending_requests
              => /\ flow[f].upstream = <<>>
                 /\ flow[f].client = <<>>
        /\ \A i \in ResponseIds(f) :
              i \in pending_responses => flow[f].client = <<>>

\* A flow whose request was resolved has gone upstream and waits with its
\* response registered.
C34_Witness ==
    \E f \in Flows :
        /\ flow[f].pc = "await_response"
        /\ flow[f].id[1] \in pending_responses
        /\ flow[f].upstream # <<>>
        /\ \E i \in RequestIds(f) : ok_resolves[i] = 1 /\ i \notin pending_requests

\* C38: a flow whose request was resolved with Drop has emitted no
\* proxy-traffic event and has spawned no add_asset; it being the one flow,
\* the tables are as they were at the start.
C38_DroppedLeavesNoTrace ==
    \A f \in SoloFlows :
        Drop \in DecisionsAt(f, "request")
        => /\ ~Scanned(f)
           /\ flow[f].res_body_str = NULL
           /\ tk[f] = IdleTask
           /\ assets \in InitialInventories
           /\ next_asset_id = Cardinality(assets) + 1
           /\ asset_history = <<>>
           /\ findings = <<>>

\* With body capture on, a dropped flow has answered its client with the
\* fixed reply and ended; its one event is the request shown to the operator.
C38_Witness ==
    \E f \in SoloFlows :
        /\ Drop \in DecisionsAt(f, "request")
        /\ flow[f].pc = "done"
        /\ flow[f].capture_body
        /\ flow[f].client = <<DroppedReply>>
        /\ Len(flow[f].events) = 1
        /\ flow[f].events[1].event = "proxy-intercept-request"

\* C39: when resolve_interception(id, action) has returned Ok, the flow that
\* registered id gets that action: it is the one value sent on the channel
\* of id, the receiving end is there to take it, and once taken it is the
\* decision the flow went on with.  This is to hold also for a flow whose
\* client has gone.
C39_OkMeansDelivered ==
    \A c \in Resolvers :
        (rc[c].pc = "returned" /\ rc[c].ret = "ok")
        => /\ chan[rc[c].id].sent = <<rc[c].action>>
           /\ chan[rc[c].id].rx # "dropped"
           /\ chan[rc[c].id].rx = "taken"
              => \E f \in Flows :
                    \E n \in 1..Len(flow[f].decisions) :
                       flow[f].decisions[n].action = rc[c].action

\* ------------------------------------------------------ plugin properties
\* C31: when load_plugins has run on a plugin directory that was missing, or
\* was there with no file in it, the directory exists, holds the sample pack
\* with the S3-bucket rule, and the returned packs include that pack (stated
\* for the runs whose directory creation and file write succeed).
C31_SampleSeeded ==
    ( /\ args.fn = "load_plugins" /\ ret # <<>>
      /\ args.mkdir_ok /\ args.write_ok
      /\ (args.dir = <<>> \/ args.dir = <<EmptyDir>>) )
    => /\ ret[1].dir # <<>>
       /\ \E i \in 1..Len(FileNames) : ret[1].dir[1][i] = <<ToYaml(SamplePack)>>
       /\ \E k \in 1..Len(ret[1].packs) :
             /\ ret[1].packs[k] = SamplePack
             /\ \E r \in 1..Len(SamplePack.rules) :
                   ret[1].packs[k].rules[r].id = "PLG-S3-BUCKET"

\* ------------------------------------------------ certificate properties
\* C10: at most one leaf is ever signed for a host, a cached entry is never
\* replaced or evicted, and every call returns the leaf the cache holds for
\* its host.
C10_OneLeafPerHost ==
    [][/\ \A h \in Hosts :
            /\ cert_signs'[h] <= 1
            /\ cert_cache[h] # <<>> => cert_cache'[h] = cert_cache[h]
       /\ \A c \in CertCallers :
            gc'[c].pc = "returned" =>
               /\ gc'[c].config # <<>>
               /\ gc'[c].config = cert_cache'[gc'[c].host]]_vars

\* C10's case: two calls for the same host, one still holding the leaf it
\* got, the other arriving at the lookup, with one signature made.
C10_Witness ==
    \E h \in Hosts :
       /\ gc["mitm1"].host = h /\ gc["mitm2"].host = h
       /\ gc["mitm1"].pc = "returned" /\ gc["mitm2"].pc = "returned"
       /\ gc["mitm1"].config = gc["mitm2"].config
       /\ cert_signs[h] = 1

====
